---- MODULE Spec2Model ----
(***************************************************************************)
(* A model of blurry's atlas builder: FontAssetBuilder::build (lib.rs),    *)
(* the two bisections of bisect.rs and the glyph sizing of raster.rs.      *)
(*                                                                         *)
(* Font sizes are binary floating point numbers.  A size is held as an     *)
(* integer count of units of 2^-FracBits, and every arithmetic result is   *)
(* rounded to MantBits significant bits, ties to even, as f32 rounds to    *)
(* 24.  The texture dimensions drawn are small, so MantBits is scaled down *)
(* with them: MantBits = 13 at height 2..3 has the ratio of range to       *)
(* precision that f32 has at heights of a few thousand pixels.             *)
(*                                                                         *)
(* The rectangle packer (crate crunch) is an external library.  Its result *)
(* is a choice among the outcomes its contract allows: it is a function of *)
(* its input, it fails when an item cannot fit the target, and it returns  *)
(* the items in an order of its own.                                       *)
(***************************************************************************)
EXTENDS Integers, Naturals, Sequences, FiniteSets, TLC

\* bounds of the model
MantBits == 13
MaxDim == 3
MaxTrials == 20

\* constants of the program
U16MAX == 65535
Attempts == 11
LowerBoundInit == 1
TooBigFactor == 8
DefaultPadding == [num |-> 1, den |-> 10]

FracBits == MantBits - 1
One == 2 ^ FracBits

VARIABLES
    builder,            \* FontAssetBuilder {size, padding, allow_rotate}
    glyphs,             \* the request iterable: Seq of GlyphRequest
    packer,             \* which packer the build runs against
    pc,                 \* position in build / the bisection
    lower_bound,        \* bisect_font_size: lower_bound
    too_big,            \* bisect_font_size: too_big
    attempts_remaining, \* bisect_font_size: attempts_remaining
    check_size,         \* the size of the current trial (either bisection)
    rects,              \* the items handed to the packer in the current trial
    missing_glyph,      \* Ok(()) or Err(MissingGlyph(ch)) of the current trial
    too_small,          \* bisect_asset_size: too_small
    upper_bound,        \* bisect_asset_size: upper_bound
    result,             \* the packing kept so far
    ret,                \* what the bisection / build returned
    asset,              \* the SdfFontAsset under construction
    next_item,          \* build: index of the next packed item to raster
    trials,             \* number of packer calls made (saturates at MaxTrials)
    lower_tried,        \* lower_bound is a size whose trial succeeded
    upper_tried,        \* too_big is a size whose trial failed
    call,               \* the call under way: its function and arguments
    pixel,              \* one pixel of raster: its side, distance and byte
    segments,           \* Segments {face_height, segments, cursor_x, cursor_y}
    nearest             \* raster: nearest = Some((i, t)), with other_seg

vars == << builder, glyphs, packer, pc, lower_bound, too_big, attempts_remaining,
           check_size, rects, missing_glyph, too_small, upper_bound, result, ret,
           asset, next_item, trials, lower_tried, upper_tried, call, pixel,
           segments, nearest >>

----------------------------------------------------------------------------
(* f32 arithmetic on sizes                                                 *)

RECURSIVE BitLen(_)
BitLen(n) == IF n = 0 THEN 0 ELSE 1 + BitLen(n \div 2)

\* Round the exact value n (in units of 2^-FracBits) to MantBits significant
\* bits, ties to even.
RoundFloat(n) ==
    IF BitLen(n) <= MantBits THEN n
    ELSE LET q == 2 ^ (BitLen(n) - MantBits)
             r == n % q
             down == n - r
         IN  IF 2 * r < q THEN down
             ELSE IF 2 * r > q THEN down + q
             ELSE IF (down \div q) % 2 = 0 THEN down ELSE down + q

\* a + b in f32
FAdd(a, b) == RoundFloat(a + b)

\* a / 2.0 in f32: exact, the operand is a sum of two sizes >= 1.0 and so a
\* multiple of two units once rounded.
FHalf(a) == a \div 2

\* A trial size a quarter of the way up the interval.
MidQuarter(lo, hi) == RoundFloat((3 * lo + hi) \div 4)
\* (lower_bound + too_big) / 2.0
Mid(lo, hi) == FHalf(FAdd(lo, hi))

\* f32::floor of a size, as an integer
Floor(f) == f \div One

\* f32::clamp on integers
Clamp(v, lo, hi) == IF v < lo THEN lo ELSE IF v > hi THEN hi ELSE v

\* u32::saturating_sub(1)
SaturatingSub1(n) == IF n = 0 THEN 0 ELSE n - 1

----------------------------------------------------------------------------
(* The faces and the requests                                              *)

None == [tag |-> "None"]
Some(v) == [tag |-> "Some", val |-> v]

\* One face: its height in design units and, per codepoint, the glyph index
\* and the bounding box the outline provider reports.  "a" is a small glyph
\* (a full stop), "b" a large one, "x" has no glyph, "y" has a glyph without
\* a bounding box.
Face ==
    [ height |-> 10,
      index  |-> [ch \in {"a", "b", "x", "y"} |->
                    IF ch = "x" THEN None
                    ELSE Some(CASE ch = "a" -> 1 [] ch = "b" -> 2 [] OTHER -> 3)],
      bbox   |-> [gid \in 1..3 |->
                    CASE gid = 1 -> Some([x_min |-> 1, x_max |-> 2, y_min |-> 0, y_max |-> 1])
                      [] gid = 2 -> Some([x_min |-> 1, x_max |-> 4, y_min |-> -2, y_max |-> 5])
                      [] OTHER   -> None] ]

Deref(face) == Face

glyph_index(face, ch) == Deref(face).index[ch]
glyph_bounding_box(face, gid) == Deref(face).bbox[gid]
face_height(face) == Deref(face).height

\* GlyphRequest {id, face, codepoint}; the id is the caller's own tag and the
\* face a reference to a face the caller keeps.
GlyphRequest(i, ch) == [id |-> i, face |-> "Face", codepoint |-> ch]

RequestsOf(chars) == [i \in 1..Len(chars) |-> GlyphRequest(i, chars[i])]

\* The request iterables drawn: without and with missing glyphs.
RequestLists ==
    { RequestsOf(cs) : cs \in { <<"a">>, <<"a", "a">>, <<"a", "b">>, <<"b", "a">>,
                                <<"x">>, <<"a", "x", "y">>, <<"y", "x">>, <<"b", "y">> } }

Missing(req) ==
    \/ glyph_index(req.face, req.codepoint) = None
    \/ glyph_bounding_box(req.face, glyph_index(req.face, req.codepoint).val) = None

NoneMissing(reqs) == \A i \in 1..Len(reqs) : ~Missing(reqs[i])

\* The first codepoint, in iteration order, whose glyph is missing.
FirstMissing(reqs) ==
    reqs[CHOOSE i \in 1..Len(reqs) :
            Missing(reqs[i]) /\ \A j \in 1..(i - 1) : ~Missing(reqs[j])].codepoint

----------------------------------------------------------------------------
(* raster.rs: get_rastered_size                                            *)

RECURSIVE Gcd(_, _)
Gcd(a, b) == IF b = 0 THEN a ELSE Gcd(b, a % b)

Abs(n) == IF n < 0 THEN -n ELSE n

\* The rational n/d in lowest terms (d = 0 stands for a non-finite value).
Rat(n, d) ==
    IF d = 0 \/ n = 0 THEN [num |-> n, den |-> IF d = 0 THEN 0 ELSE 1]
    ELSE [num |-> n \div Gcd(Abs(n), d), den |-> d \div Gcd(Abs(n), d)]
RatAdd(a, b) == Rat(a.num * b.den + b.num * a.den, a.den * b.den)
RatSub(a, b) == Rat(a.num * b.den - b.num * a.den, a.den * b.den)

\* (width * font_size) as u16, without the round.
TruncClampU16(width, font_size) ==
    IF width.num <= 0 THEN 0
    ELSE LET b == width.den * One
             q == font_size \div b
             r == font_size % b
         IN  IF q > U16MAX THEN U16MAX
             ELSE Clamp(width.num * q + ((width.num * r) \div b), 0, U16MAX)

\* (width * font_size).round().clamp(0.0, u16::MAX.into()), width a rational
\* and font_size a size.  f32::round rounds half away from zero.
RoundClampU16(width, font_size) ==
    IF width.num <= 0 THEN 0
    ELSE LET b == width.den * One
             q == font_size \div b
             r == font_size % b
             frac == (2 * width.num * r + b) \div (2 * b)
         IN  IF q > U16MAX THEN U16MAX
             ELSE Clamp(width.num * q + frac, 0, U16MAX)

\* The variants of Error.
PackingAtlasFailed == [kind |-> "PackingAtlasFailed"]
MissingGlyph(ch) == [kind |-> "MissingGlyph", ch |-> ch]

Panic == [tag |-> "Panic"]
Ok(v) == [tag |-> "Ok", val |-> v]
Err(e) == [tag |-> "Err", val |-> e]

\* checked = TRUE: the build traps integer overflow; FALSE: it wraps.
AddU16(a, b, checked) ==
    IF a + b <= U16MAX THEN Ok(a + b)
    ELSE IF checked THEN Panic ELSE Ok((a + b) % (U16MAX + 1))

get_rastered_size(padding_ratio, clamp_left, font_size, face, ch, checked) ==
    LET rel_from(v) == Rat(v, face_height(face))
        padding == padding_ratio
        left_padding == IF clamp_left THEN Rat(0, 1) ELSE padding
    IN  IF glyph_index(face, ch) = None THEN Panic
        ELSE IF glyph_bounding_box(face, glyph_index(face, ch).val) = None THEN Panic
        ELSE
        LET bbox == glyph_bounding_box(face, glyph_index(face, ch).val).val
            edgeless_width == RatAdd(RatAdd(rel_from(bbox.x_max - bbox.x_min), padding),
                                     left_padding)
            height == RatAdd(rel_from(bbox.y_max - bbox.y_min), RatAdd(padding, padding))
            pixel_width_f == RoundClampU16(edgeless_width, font_size)
            pixel_height == RoundClampU16(height, font_size)
            left == RatSub(rel_from(bbox.x_min), padding)
            right == RatAdd(rel_from(bbox.x_max), padding)
            top == RatAdd(rel_from(bbox.y_max), padding)
            bottom == RatSub(rel_from(bbox.y_min), padding)
            one_pixel == Rat(edgeless_width.num, edgeless_width.den * pixel_width_f)
            left_clamped == IF clamp_left THEN rel_from(bbox.x_min) ELSE left
            pixel_width == IF clamp_left THEN AddU16(pixel_width_f, 1, checked)
                           ELSE Ok(pixel_width_f)
        IN  IF pixel_width = Panic THEN Panic
            ELSE Ok([ pixel_width  |-> pixel_width.val,
                      pixel_height |-> pixel_height,
                      left |-> left, right |-> right, top |-> top, bottom |-> bottom,
                      left_clamped |-> left_clamped,
                      left_clamped_internal_raster |->
                          IF clamp_left THEN RatSub(left_clamped, one_pixel) ELSE left ])

----------------------------------------------------------------------------
(* bisect.rs: the items of one trial                                       *)

\* glyphs.clone().map_while(..) of bisect_font_size and map_glyphs of
\* bisect_asset_size: the items up to the first request whose size is an
\* Err, which is remembered in missing_glyph; a panic in get_rastered_size
\* or in the gutter addition ends the process.
RECURSIVE MapWhile(_, _, _, _, _, _, _)
MapWhile(reqs, i, acc, padding_ratio, font_size, rot, checked) ==
    IF i > Len(reqs) THEN [tag |-> "Done", items |-> acc, missing_glyph |-> Ok("unit")]
    ELSE LET req == reqs[i]
             sz == get_rastered_size(padding_ratio, FALSE, font_size,
                                     req.face, req.codepoint, checked)
         IN  CASE sz.tag = "Panic" -> Panic
               [] sz.tag = "Err" ->
                    [tag |-> "Done", items |-> acc,
                     missing_glyph |-> Err(MissingGlyph(sz.val))]
               [] OTHER ->
                    LET w == AddU16(sz.val.pixel_width, 1, checked)
                        h == AddU16(sz.val.pixel_height, 1, checked)
                    IN  IF w = Panic \/ h = Panic THEN Panic
                        ELSE MapWhile(reqs, i + 1,
                                      Append(acc, [data |-> [req |-> req,
                                                             rastered_size |-> sz.val,
                                                             font_size |-> font_size],
                                                   w |-> w.val, h |-> h.val, rot |-> rot]),
                                      padding_ratio, font_size, rot, checked)

RectsOfRest(reqs, padding_ratio, font_size, rot, checked) ==
    MapWhile(reqs, 2, << >>, padding_ratio, font_size, rot, checked)
Rects(reqs, padding_ratio, font_size, rot, checked) ==
    MapWhile(reqs, 1, << >>, padding_ratio, font_size, rot, checked)

\* The items of one trial under either build profile: overflow checks on
\* (the trial may panic) or off (the sum wraps).
TrialRects(reqs, padding_ratio, font_size, rot) ==
    LET r == Rects(reqs, padding_ratio, font_size, rot, TRUE)
    IN  IF r = Panic THEN {r, Rects(reqs, padding_ratio, font_size, rot, FALSE)} ELSE {r}

----------------------------------------------------------------------------
(* The packer: crunch::Packer::with_items(items).pack(rect)                *)

Big == 2 ^ 30

\* a * b, saturating at Big
SatMul(a, b) == IF a = 0 \/ b <= Big \div a THEN (IF a * b > Big THEN Big ELSE a * b) ELSE Big

RECURSIVE SatArea(_, _)
SatArea(items, i) ==
    IF i > Len(items) THEN 0
    ELSE LET rest == SatArea(items, i + 1)
             a == SatMul(items[i].w, items[i].h)
         IN  IF a + rest > Big THEN Big ELSE a + rest

RECURSIVE SumTo(_, _)
SumTo(f, k) == IF k = 0 THEN 0 ELSE f[k] + SumTo(f, k - 1)

Reverse(seq) == [i \in 1..Len(seq) |-> seq[Len(seq) + 1 - i]]

\* The ways the packers drawn lay the items out in the target, whose origin
\* is (1, 1): side by side in a row or stacked in a column, from the origin
\* or against the far edges, in the order given or reversed, and (when the
\* items may be rotated) with no item, every item or the first item turned.
LayoutKinds ==
    { [dir |-> "row", far |-> FALSE, turn |-> "none",  rev |-> FALSE],
      [dir |-> "col", far |-> TRUE,  turn |-> "none",  rev |-> TRUE],
      [dir |-> "row", far |-> TRUE,  turn |-> "all",   rev |-> TRUE],
      [dir |-> "col", far |-> FALSE, turn |-> "all",   rev |-> FALSE],
      [dir |-> "col", far |-> TRUE,  turn |-> "first", rev |-> FALSE] }

\* The placed items (crunch::PackedItem {data, rect}) of layout k, or << >>
\* when the layout does not hold the items inside the w x h target.  turned
\* records the packer's own decision; the program cannot read it.
Layout(items, w, h, k) ==
    LET seq == IF k.rev THEN Reverse(items) ELSE items
        n == Len(seq)
        turned(i) == k.turn = "all" \/ (k.turn = "first" /\ i = 1)
        rw == [i \in 1..n |-> IF turned(i) THEN seq[i].h ELSE seq[i].w]
        rh == [i \in 1..n |-> IF turned(i) THEN seq[i].w ELSE seq[i].h]
        along == IF k.dir = "row" THEN rw ELSE rh
        x(i) == IF k.dir = "row"
                THEN (IF k.far THEN 1 + w - SumTo(along, i) ELSE 1 + SumTo(along, i - 1))
                ELSE (IF k.far THEN 1 + w - rw[i] ELSE 1)
        y(i) == IF k.dir = "col"
                THEN (IF k.far THEN 1 + h - SumTo(along, i) ELSE 1 + SumTo(along, i - 1))
                ELSE (IF k.far THEN 1 + h - rh[i] ELSE 1)
        fits == /\ k.turn # "none" => \A i \in 1..n : seq[i].rot
                /\ \A i \in 1..n : rw[i] <= w /\ rh[i] <= h
                /\ SumTo(along, n) <= (IF k.dir = "row" THEN w ELSE h)
    IN  IF ~fits THEN << >>
        ELSE [i \in 1..n |-> [data |-> seq[i].data,
                               target |-> [w |-> w, h |-> h],
                               turned |-> turned(i),
                               rect |-> [x |-> x(i), y |-> y(i), w |-> rw[i], h |-> rh[i]]]]

\* The packings a successful pack of the items into a w x h target may
\* return: the items' data, in an order of the packer's own, each with the
\* rectangle it was placed at inside that target.
Packed(items, w, h) == { Layout(items, w, h, k) : k \in LayoutKinds } \ { << >> }

\* What the packers drawn need in order to place the items inside a w x h
\* target without overlap: each item fits (turned, if it may be), the items'
\* area is no more than the target's, and one of the layouts holds them.
CanFit(items, w, h) ==
    /\ \A i \in 1..Len(items) :
          \/ items[i].w <= w /\ items[i].h <= h
          \/ items[i].rot /\ items[i].h <= w /\ items[i].w <= h
    /\ \/ SatArea(items, 1) < Big /\ SatArea(items, 1) <= SatMul(w, h)
       \/ SatArea(items, 1) = Big /\ SatMul(w, h) = Big
    /\ Packed(items, w, h) # {}

\* The outcomes (TRUE: Ok, FALSE: Err) the packer may give for the items of
\* a bisect_font_size trial at check_size in a w x h target.  A packer is a
\* function of its input: a size tried before gets the outcome it got.
FontPackOutcomes(pk, items, w, h, size, lo, lo_tried, hi, hi_tried) ==
    IF ~CanFit(items, w, h) THEN {FALSE}
    ELSE IF pk.kind = "monotone" THEN {size <= pk.thr}
    ELSE IF lo_tried /\ size = lo THEN {TRUE}
    ELSE IF hi_tried /\ size = hi THEN {FALSE}
    ELSE BOOLEAN

\* The outcomes the packer may give for the items of a bisect_asset_size
\* trial in a dim x dim target.
AssetPackOutcomes(pk, items, dim) ==
    IF ~CanFit(items, dim, dim) THEN {FALSE}
    ELSE IF pk.kind = "monotone" THEN {dim >= pk.thr}
    ELSE BOOLEAN

----------------------------------------------------------------------------
(* lib.rs: the builder                                                     *)

TextureSize(w, h) == [kind |-> "TextureSize", w |-> w, h |-> h]
FontSize(f) == [kind |-> "FontSize", font_size |-> f]

with_texture_size(width, height) ==
    [size |-> TextureSize(width, height), padding |-> DefaultPadding, allow_rotate |-> FALSE]

with_font_size(font_size) ==
    [size |-> FontSize(font_size), padding |-> DefaultPadding, allow_rotate |-> FALSE]

\* assert!(width >= 2 && height >= 2), lib.rs 63
AssertTextureSizeEither(width, height) == width >= 2 \/ height >= 2
AssertTextureSize(width, height) == width >= 2 /\ height >= 2

\* An f32 argument: a finite value, in size units, or NaN.
Finite(n) == [class |-> "finite", val |-> n]
NaN == [class |-> "nan", val |-> 0]

\* assert!(font_size > 0.0), lib.rs 75; a comparison with NaN is false.
AssertFontSize(font_size) == font_size.class = "finite" /\ font_size.val > 0

\* with_padding_ratio, lib.rs 86-88
with_padding_ratio(b, padding) == [b EXCEPT !.padding = padding]

\* allow_rotating_glyphs, lib.rs 93-98
allow_rotating_glyphs_default_padding(b) ==
    [b EXCEPT !.allow_rotate = TRUE, !.padding = DefaultPadding]
allow_rotating_glyphs(b) == [b EXCEPT !.allow_rotate = TRUE]

Dims == 2..MaxDim

\* Font sizes drawn for with_font_size: 0.5, 1.0, 3.5, 30, 65000, 70000.
SmallFontSizes == {One \div 2, One, 7 * (One \div 2), 30 * One}
LargeFontSizes == {65000 * One, 70000 * One, 80000 * One}

TextureBuilders ==
    LET plain == {with_texture_size(w, h) : w \in Dims, h \in Dims}
    IN  plain \cup {allow_rotating_glyphs(b) : b \in plain}

FontBuilders(sizes) ==
    LET plain == {with_font_size(f) : f \in sizes}
    IN  plain \cup {allow_rotating_glyphs(b) : b \in plain}

\* The packers drawn.  A monotone packer packs a font size iff it is at most
\* thr (texture-size mode), a square dimension iff it is at least thr
\* (font-size mode); the other packer may give any outcome.
AnyPacker == [kind |-> "any", thr |-> 0]
MonotonePacker(t) == [kind |-> "monotone", thr |-> t]

FontThresholds == { (k * One) \div 4 : k \in 0..(8 * MaxDim) } \cup {TooBigFactor * MaxDim * One}
AssetThresholds == {1, 2, 3, 4, 7, 29, 30, 100, 40000, 65000, 65534, 65535, 65536}

----------------------------------------------------------------------------
(* The state machine                                                       *)

NoRet == [tag |-> "None"]
NoAsset ==
    [width |-> 0, height |-> 0, data_len |-> [hi |-> 0, lo |-> 0],
     written |-> << >>, metadata |-> << >>]

NoCall == [fn |-> "none"]
NoPixel == [encoded |-> FALSE, side |-> 0, dist |-> 0, value |-> 0]

\* No outline has been collected and no pixel's nearest point been sought.
NoOutline == segments = None /\ nearest = None

\* Nothing of build or of a bisection has run.
NotStarted ==
    /\ lower_bound = 0
    /\ too_big = 0
    /\ attempts_remaining = 0
    /\ check_size = 0
    /\ rects = << >>
    /\ missing_glyph = Ok("unit")
    /\ too_small = 0
    /\ upper_bound = 0
    /\ result = << >>
    /\ ret = NoRet
    /\ asset = NoAsset
    /\ next_item = 0
    /\ trials = 0
    /\ lower_tried = FALSE
    /\ upper_tried = FALSE

\* A builder b on which build(glyphs) is called, against packer pk.
Start(b, g, pk) ==
    /\ builder = b
    /\ glyphs = g
    /\ packer = pk
    /\ pc = "build"
    /\ call = NoCall
    /\ pixel = NoPixel
    /\ NoOutline
    /\ NotStarted

InitTexture ==
    \E b \in TextureBuilders, g \in RequestLists,
       pk \in {AnyPacker} \cup {MonotonePacker(t) : t \in FontThresholds} :
        Start(b, g, pk)

InitFont ==
    \/ \E b \in FontBuilders(SmallFontSizes \cup LargeFontSizes), g \in RequestLists,
          pk \in {MonotonePacker(t) : t \in AssetThresholds} :
            Start(b, g, pk)
    \/ \E b \in FontBuilders(LargeFontSizes), g \in RequestLists :
            Start(b, g, AnyPacker)

Init == InitTexture \/ InitFont

Bump(n) == IF n < MaxTrials THEN n + 1 ELSE n

\* build, lib.rs 106-129, up to the first trial of the bisection it calls:
\* bisect_font_size(.., BisectArgs {1.0, 8.0 * height, 11}, ..) or
\* bisect_asset_size(font_size, ..).
BuildStart ==
    /\ pc = "build"
    /\ IF builder.size.kind = "TextureSize"
       THEN /\ lower_bound' = LowerBoundInit * One
            /\ too_big' = RoundFloat(TooBigFactor * builder.size.h * One)
            /\ attempts_remaining' = Attempts
            /\ pc' = "font_rects"
            /\ UNCHANGED too_small
       ELSE /\ too_small' = Clamp(Floor(builder.size.font_size), 2, U16MAX) - 1
            /\ pc' = "asset_probe"
            /\ UNCHANGED << lower_bound, too_big, attempts_remaining >>
    /\ UNCHANGED << segments, nearest, call, pixel, builder, glyphs, packer, check_size, rects, missing_glyph,
                    upper_bound, result, ret, asset, next_item, trials,
                    lower_tried, upper_tried >>

\* rot, bisect.rs 24-28 and 93-97: crunch::Rotation::Allowed (TRUE) or None
\* (FALSE), the same for every item.
RotationAlways(allow_rotate) == TRUE
Rotation(allow_rotate) == allow_rotate

\* pack_width and pack_height, bisect.rs 60-61
PackWidthFull(asset_width) == asset_width
PackWidth(asset_width) == asset_width - 1
PackHeight(asset_height) == asset_height - 1

\* bisect_font_size, bisect.rs 36-59: one more attempt is spent, the trial
\* size is the midpoint, and the items are sized at it.
FontSizeRects ==
    /\ pc = "font_rects"
    /\ attempts_remaining' = SaturatingSub1(attempts_remaining)
    /\ check_size' = Mid(lower_bound, too_big)
    /\ \E r \in TrialRects(glyphs, builder.padding, Mid(lower_bound, too_big),
                            Rotation(builder.allow_rotate)) :
             IF r = Panic
             THEN /\ pc' = "panicked"
                  /\ ret' = Panic
                  /\ UNCHANGED << rects, missing_glyph >>
             ELSE /\ pc' = "font_pack"
                  /\ rects' = r.items
                  /\ missing_glyph' = r.missing_glyph
                  /\ UNCHANGED ret
    /\ UNCHANGED << segments, nearest, call, pixel, builder, glyphs, packer, lower_bound, too_big, too_small,
                    upper_bound, result, asset, next_item, trials,
                    lower_tried, upper_tried >>

\* bisect.rs 68-79: what the match on the packing does to the bounds, and
\* when the loop is left.
NewLowerBound(ok, lo, size) == IF ok THEN size ELSE lo
NewTooBig(ok, hi, size) == IF ok THEN hi ELSE size
FontSizeReturnsEarly(ok, remaining) == ok /\ remaining <= 1
FontSizeReturnsAnyOutcome(ok, remaining) == remaining = 0
FontSizeReturns(ok, remaining) == ok /\ remaining = 0

\* bisect_font_size, bisect.rs 60-79: the trial packing and the match on it.
FontSizePack ==
    /\ pc = "font_pack"
    /\ trials' = Bump(trials)
    /\ \E ok \in FontPackOutcomes(packer, rects, PackWidth(builder.size.w),
                                   PackHeight(builder.size.h),
                                   check_size, lower_bound, lower_tried,
                                   too_big, upper_tried) :
         IF missing_glyph.tag = "Err"
         THEN /\ ret' = missing_glyph
              /\ pc' = "done"
              /\ UNCHANGED << lower_bound, too_big, result, lower_tried, upper_tried >>
         ELSE /\ lower_bound' = NewLowerBound(ok, lower_bound, check_size)
              /\ too_big' = NewTooBig(ok, too_big, check_size)
              /\ lower_tried' = (lower_tried \/ ok)
              /\ upper_tried' = (upper_tried \/ ~ok)
              /\ UNCHANGED ret
              /\ IF FontSizeReturns(ok, attempts_remaining)
                 THEN /\ \E res \in Packed(rects, PackWidth(builder.size.w),
                                                 PackHeight(builder.size.h)) :
                            result' = res
                      /\ pc' = "alloc"
                 ELSE /\ pc' = "font_rects"
                      /\ UNCHANGED result
    /\ UNCHANGED << segments, nearest, call, pixel, builder, glyphs, packer, attempts_remaining, check_size, rects,
                    missing_glyph, too_small, upper_bound, asset, next_item >>

SubU16(a, b, checked) ==
    IF a >= b THEN Ok(a - b)
    ELSE IF checked THEN Panic ELSE Ok((a - b) % (U16MAX + 1))

\* (too_small + 1) < upper_bound, bisect.rs 137
LoopCondStopsEarly(ts, ub, checked) ==
    LET s == AddU16(ts, 2, checked)
    IN  IF s = Panic THEN Panic ELSE Ok(s.val < ub)
LoopCond(ts, ub, checked) ==
    LET s == AddU16(ts, 1, checked)
    IN  IF s = Panic THEN Panic ELSE Ok(s.val < ub)

\* too_small + ((upper_bound - too_small) / 2), bisect.rs 138
AssetCheckSizeNaive(ts, ub, checked) ==
    LET s == AddU16(ts, ub, checked)
    IN  IF s = Panic THEN Panic ELSE Ok(s.val \div 2)
AssetCheckSize(ts, ub, checked) ==
    LET d == SubU16(ub, ts, checked)
    IN  IF d = Panic THEN Panic ELSE AddU16(ts, d.val \div 2, checked)

\* The build profiles that differ on the loop's arithmetic: both when it
\* overflows, one otherwise.
OverflowProfiles(ts, ub) ==
    IF LoopCond(ts, ub, TRUE) = Panic \/ AssetCheckSize(ts, ub, TRUE) = Panic
    THEN BOOLEAN ELSE {TRUE}

\* bisect_asset_size, bisect.rs 120-136: the probe at 65535 x 65535.
AssetSizeProbe ==
    /\ pc = "asset_probe"
    /\ check_size' = U16MAX
    /\ \E r \in TrialRects(glyphs, builder.padding, builder.size.font_size,
                            Rotation(builder.allow_rotate)) :
             IF r = Panic
             THEN /\ pc' = "panicked"
                  /\ ret' = Panic
                  /\ UNCHANGED << rects, missing_glyph, result, upper_bound, trials >>
             ELSE /\ rects' = r.items
                  /\ missing_glyph' = r.missing_glyph
                  /\ trials' = Bump(trials)
                  /\ \E ok \in AssetPackOutcomes(packer, r.items, U16MAX) :
                       IF r.missing_glyph.tag = "Err"
                       THEN /\ ret' = r.missing_glyph
                            /\ pc' = "done"
                            /\ UNCHANGED << result, upper_bound >>
                       ELSE IF ok
                       THEN /\ \E res \in Packed(r.items, U16MAX, U16MAX) : result' = res
                            /\ upper_bound' = U16MAX
                            /\ pc' = "asset_loop"
                            /\ UNCHANGED ret
                       ELSE /\ ret' = Err(PackingAtlasFailed)
                            /\ pc' = "done"
                            /\ UNCHANGED << result, upper_bound >>
    /\ UNCHANGED << segments, nearest, call, pixel, builder, glyphs, packer, lower_bound, too_big, attempts_remaining,
                    too_small, asset, next_item, lower_tried, upper_tried >>

\* bisect.rs 148 and 153, missing_glyph.get()? in either arm of the loop's
\* match: what the iteration returns, NoRet when the loop goes on.
AssetStepReturnOnFailure(ok, missing) ==
    IF missing.tag = "Err" THEN missing
    ELSE IF ~ok THEN Err(PackingAtlasFailed) ELSE NoRet
AssetStepReturn(ok, missing) == IF missing.tag = "Err" THEN missing ELSE NoRet

\* bisect_asset_size, bisect.rs 137-157: one iteration of the while loop.
AssetSizeStep ==
    /\ pc = "asset_loop"
    /\ \E checked \in OverflowProfiles(too_small, upper_bound),
          r \in TrialRects(glyphs, builder.padding, builder.size.font_size,
                           Rotation(builder.allow_rotate)) :
         LET c == LoopCond(too_small, upper_bound, checked)
             m == AssetCheckSize(too_small, upper_bound, checked)
         IN  /\ c # Panic => c.val
             /\ IF c = Panic \/ m = Panic \/ r = Panic
                THEN /\ pc' = "panicked"
                     /\ ret' = Panic
                     /\ UNCHANGED << check_size, rects, missing_glyph, result,
                                     upper_bound, too_small, trials >>
                ELSE /\ check_size' = m.val
                     /\ rects' = r.items
                     /\ missing_glyph' = r.missing_glyph
                     /\ trials' = Bump(trials)
                     /\ \E ok \in AssetPackOutcomes(packer, r.items, m.val) :
                          IF AssetStepReturn(ok, r.missing_glyph) # NoRet
                          THEN /\ ret' = AssetStepReturn(ok, r.missing_glyph)
                               /\ pc' = "done"
                               /\ UNCHANGED << result, upper_bound, too_small >>
                          ELSE IF ok
                          THEN /\ \E res \in Packed(r.items, m.val, m.val) : result' = res
                               /\ upper_bound' = m.val
                               /\ pc' = "asset_loop"
                               /\ UNCHANGED << too_small, ret >>
                          ELSE /\ too_small' = m.val
                               /\ pc' = "asset_loop"
                               /\ UNCHANGED << result, upper_bound, ret >>
    /\ UNCHANGED << segments, nearest, call, pixel, builder, glyphs, packer, lower_bound, too_big, attempts_remaining,
                    asset, next_item, lower_tried, upper_tried >>

\* bisect_asset_size, bisect.rs 137 and 158: the loop ends, Ok((upper_bound, result)).
AssetSizeReturn ==
    /\ pc = "asset_loop"
    /\ \E checked \in OverflowProfiles(too_small, upper_bound) :
         LET c == LoopCond(too_small, upper_bound, checked)
         IN  /\ c # Panic
             /\ ~c.val
    /\ pc' = "alloc"
    /\ UNCHANGED << segments, nearest, call, pixel, builder, glyphs, packer, lower_bound, too_big, attempts_remaining,
                    check_size, rects, missing_glyph, too_small, upper_bound, result,
                    ret, asset, next_item, trials, lower_tried, upper_tried >>

\* usize::from(width) * usize::from(height) on a 64-bit usize, as the pair
\* (hi, lo) with value hi * 65536 + lo.
MulUsize(w, h) ==
    LET a == w \div 256
        b == w % 256
        c == h \div 256
        d == h % 256
        mid == a * d + b * c
        lo_raw == (mid % 256) * 256 + b * d
    IN  [hi |-> a * c + (mid \div 256) + (lo_raw \div 65536), lo |-> lo_raw % 65536]

\* The (width, height) build takes from the size policy and the bisection,
\* lib.rs 108-117.
AssetWidth == IF builder.size.kind = "TextureSize" THEN builder.size.w ELSE upper_bound
AssetHeightFromWidth == IF builder.size.kind = "TextureSize" THEN builder.size.w ELSE upper_bound
AssetHeight == IF builder.size.kind = "TextureSize" THEN builder.size.h ELSE upper_bound

\* build, lib.rs 133-135: the buffer and the metadata vector.
BuildAlloc ==
    /\ pc = "alloc"
    /\ asset' = [width |-> AssetWidth, height |-> AssetHeight,
                 data_len |-> MulUsize(AssetWidth, AssetHeight),
                 written |-> << >>, metadata |-> << >>]
    /\ next_item' = 1
    /\ pc' = "raster"
    /\ UNCHANGED << segments, nearest, call, pixel, builder, glyphs, packer, lower_bound, too_big, attempts_remaining,
                    check_size, rects, missing_glyph, too_small, upper_bound, result,
                    ret, trials, lower_tried, upper_tried >>

\* self.data[y * width + x] of set_pixel is inside a buffer of width * height
\* bytes, raster.rs 185-188.
InBuffer(x, y, width, height) == width > 0 /\ y + (x \div width) < height

\* rotate = (item.rect.w - 1) != rastered_size.pixel_width, raster.rs 197 and
\* lib.rs 147.
RotatedByHeight(item) == (item.rect.h - 1) # item.data.rastered_size.pixel_width
Rotated(item) == (item.rect.w - 1) # item.data.rastered_size.pixel_width

\* raster, raster.rs 196-253: the glyph is looked up again, its outline
\* collected, and every pixel (rect.x + dest_x, rect.y + dest_y), dest_x in
\* 0..rect.w-2 and dest_y in 0..rect.h-2, is set; the pixels set are returned
\* as the block [x0..x1] x [y0..y1], empty when a range is.  rect.w - 1 and
\* rect.h - 1 are usize subtractions: on a zero extent they panic or wrap to
\* a range that runs out of the buffer, where set_pixel panics.
raster(width, height, item) ==
    IF glyph_index(item.data.req.face, item.data.req.codepoint) = None THEN Panic
    ELSE IF item.rect.w = 0 \/ item.rect.h = 0 THEN Panic
    ELSE LET x1 == item.rect.x + item.rect.w - 2
             y1 == item.rect.y + item.rect.h - 2
         IN  IF item.rect.w = 1 \/ item.rect.h = 1 THEN Ok([empty |-> TRUE])
             ELSE IF ~InBuffer(x1, y1, width, height) THEN Panic
             ELSE Ok([empty |-> FALSE, x0 |-> item.rect.x, x1 |-> x1,
                      y0 |-> item.rect.y, y1 |-> y1, rotate |-> Rotated(item)])

\* A Glyph record that does not carry the request's id.
GlyphOfWithoutId(width, height, item) ==
    [ id |-> 0,
      codepoint |-> item.data.req.codepoint,
      rotated |-> (item.rect.w - 1) # item.data.rastered_size.pixel_width,
      left |-> item.data.rastered_size.left, right |-> item.data.rastered_size.right,
      top |-> item.data.rastered_size.top, bottom |-> item.data.rastered_size.bottom,
      tex_left |-> [num |-> item.rect.x, den |-> width],
      tex_right |-> [num |-> item.rect.x + item.data.rastered_size.pixel_width, den |-> width],
      tex_bottom |-> [num |-> item.rect.y, den |-> height],
      tex_top |-> [num |-> item.rect.y + item.data.rastered_size.pixel_height, den |-> height] ]

\* The Glyph record build pushes for a packed item, lib.rs 146-173; a texture
\* coordinate n / d is kept as the pair (n, d).
GlyphOf(width, height, item) ==
    LET rastered_size == item.data.rastered_size
    IN  [ id |-> item.data.req.id,
          codepoint |-> item.data.req.codepoint,
          rotated |-> Rotated(item),
          left |-> rastered_size.left, right |-> rastered_size.right,
          top |-> rastered_size.top, bottom |-> rastered_size.bottom,
          tex_left |-> [num |-> item.rect.x, den |-> width],
          tex_right |-> [num |-> item.rect.x + rastered_size.pixel_width, den |-> width],
          tex_bottom |-> [num |-> item.rect.y, den |-> height],
          tex_top |-> [num |-> item.rect.y + rastered_size.pixel_height, den |-> height] ]

\* meta.push(glyph), lib.rs 161
PushFront(vec, v) == << v >> \o vec
Push(vec, v) == Append(vec, v)

\* build, lib.rs 136-174: one packed item is rastered and its Glyph pushed.
BuildRaster ==
    /\ pc = "raster"
    /\ next_item <= Len(result)
    /\ LET item == result[next_item]
           r == raster(asset.width, asset.height, item)
       IN  IF r = Panic
           THEN /\ pc' = "panicked"
                /\ ret' = Panic
                /\ UNCHANGED << asset, next_item >>
           ELSE /\ asset' = [asset EXCEPT
                                !.written = Append(@, r.val),
                                !.metadata = Push(@, GlyphOf(asset.width, asset.height, item))]
                /\ next_item' = next_item + 1
                /\ UNCHANGED << pc, ret >>
    /\ UNCHANGED << segments, nearest, call, pixel, builder, glyphs, packer, lower_bound, too_big, attempts_remaining,
                    check_size, rects, missing_glyph, too_small, upper_bound, result,
                    trials, lower_tried, upper_tried >>

\* build, lib.rs 175-180: Ok(SdfFontAsset {width, height, data, metadata}).
BuildDone ==
    /\ pc = "raster"
    /\ next_item > Len(result)
    /\ ret' = Ok("asset")
    /\ pc' = "done"
    /\ UNCHANGED << segments, nearest, call, pixel, builder, glyphs, packer, lower_bound, too_big, attempts_remaining,
                    check_size, rects, missing_glyph, too_small, upper_bound, result,
                    asset, next_item, trials, lower_tried, upper_tried >>

BuildTail == BuildAlloc \/ BuildRaster \/ BuildDone

NextTexture == BuildStart \/ FontSizeRects \/ FontSizePack \/ BuildTail
NextFont == BuildStart \/ AssetSizeProbe \/ AssetSizeStep \/ AssetSizeReturn \/ BuildTail
Next == NextTexture \/ NextFont

\* Both modes.
Spec == Init /\ [][Next]_vars
\* Texture-size mode and font-size mode alone.
SpecTexture == InitTexture /\ [][NextTexture]_vars
SpecFont == InitFont /\ [][NextFont]_vars

\* The build is one sequential computation: while it has neither returned
\* nor panicked it goes on executing, i.e. its position keeps advancing.
PcValues == {"build", "font_rects", "font_pack", "asset_probe", "asset_loop",
             "alloc", "raster", "done", "panicked"}
Running == pc \notin {"done", "panicked"}
position == << pc, next_item >>
Advance ==
    /\ Running
    /\ \E p \in PcValues, n \in 0..(Len(glyphs) + 1) : pc' = p /\ next_item' = n
FairSpecTexture == SpecTexture /\ WF_position(Advance)

----------------------------------------------------------------------------
(* lib.rs: constructing and configuring the builder                        *)

NoBuilder == [size |-> [kind |-> "none"], padding |-> DefaultPadding, allow_rotate |-> FALSE]

\* The constructor calls drawn: with_texture_size(w, h) for w, h in
\* 0..MaxDim + 1, with_font_size(f) for f NaN, -1.0, 0.0, 2^-FracBits, 0.5,
\* 1.0, 30.0 and 65000.0.
ConstructorCalls ==
    { [fn |-> "with_texture_size", width |-> w, height |-> h] :
        w \in 0..(MaxDim + 1), h \in 0..(MaxDim + 1) }
    \cup
    { [fn |-> "with_font_size", font_size |-> f] :
        f \in {NaN} \cup {Finite(n) : n \in {-One, 0, 1, One \div 2, One, 30 * One, 65000 * One}} }

\* The padding ratios drawn for with_padding_ratio: 0.0, 0.1, 0.3.
PaddingRatios == { [num |-> 0, den |-> 1], DefaultPadding, [num |-> 3, den |-> 10] }

InitBuilder ==
    /\ call \in ConstructorCalls
    /\ pc = "new"
    /\ builder = NoBuilder
    /\ glyphs = << >>
    /\ packer = AnyPacker
    /\ pixel = NoPixel
    /\ NoOutline
    /\ NotStarted

BuilderFrame ==
    UNCHANGED << segments, nearest, call, pixel, packer, lower_bound, too_big, attempts_remaining,
                 check_size, rects, missing_glyph, too_small, upper_bound, result,
                 asset, next_item, trials, lower_tried, upper_tried >>

\* FontAssetBuilder::with_texture_size / with_font_size, lib.rs 62-81: the
\* assertion, then the builder with the defaults.
Construct ==
    /\ pc = "new"
    /\ IF call.fn = "with_texture_size"
       THEN IF AssertTextureSize(call.width, call.height)
            THEN /\ builder' = with_texture_size(call.width, call.height)
                 /\ pc' = "config"
                 /\ UNCHANGED ret
            ELSE /\ pc' = "panicked"
                 /\ ret' = Panic
                 /\ UNCHANGED builder
       ELSE IF AssertFontSize(call.font_size)
            THEN /\ builder' = with_font_size(call.font_size.val)
                 /\ pc' = "config"
                 /\ UNCHANGED ret
            ELSE /\ pc' = "panicked"
                 /\ ret' = Panic
                 /\ UNCHANGED builder
    /\ UNCHANGED glyphs
    /\ BuilderFrame

\* builder.with_padding_ratio(padding), lib.rs 86-88
WithPaddingRatio ==
    /\ pc = "config"
    /\ \E p \in PaddingRatios : builder' = with_padding_ratio(builder, p)
    /\ UNCHANGED << pc, ret, glyphs >>
    /\ BuilderFrame

\* builder.allow_rotating_glyphs(), lib.rs 93-98
AllowRotatingGlyphs ==
    /\ pc = "config"
    /\ builder' = allow_rotating_glyphs(builder)
    /\ UNCHANGED << pc, ret, glyphs >>
    /\ BuilderFrame

\* builder.build(glyphs) is called, lib.rs 101.
CallBuild ==
    /\ pc = "config"
    /\ \E g \in RequestLists : glyphs' = g
    /\ pc' = "build"
    /\ UNCHANGED << builder, ret >>
    /\ BuilderFrame

NextBuilder == Construct \/ WithPaddingRatio \/ AllowRotatingGlyphs \/ CallBuild
\* From a constructor call to the call of build.
SpecBuilder == InitBuilder /\ [][NextBuilder]_vars

----------------------------------------------------------------------------
(* raster.rs: the byte of one pixel                                        *)

\* Distances are multiples of 1 / DistDen of the padding.
DistDen == 256
MaxDist == 2 * DistDen + 2

\* raster.rs 247-248: signed_dist = 0.5 - curve_side * (dist * 0.5) and
\* value = (255.0 * signed_dist.clamp(0.0, 1.0)) as u8, the cast truncating;
\* dist is the number of 1 / DistDen units.
EncodeByte(curve_side, dist) ==
    (255 * Clamp(DistDen - curve_side * dist, 0, 2 * DistDen)) \div (2 * DistDen)

\* One pixel whose nearest outline point is at distance dist, on the side
\* curve_side = signum(..): 1.0 or -1.0 (raster.rs 244).
InitPixel ==
    /\ \E side \in {-1, 1}, d \in 0..MaxDist :
          pixel = [encoded |-> FALSE, side |-> side, dist |-> d, value |-> 0]
    /\ pc = "pixel"
    /\ call = NoCall
    /\ builder = NoBuilder
    /\ glyphs = << >>
    /\ packer = AnyPacker
    /\ NoOutline
    /\ NotStarted

\* raster.rs 244-249: the byte is computed and set.
SetPixel ==
    /\ pc = "pixel"
    /\ ~pixel.encoded
    /\ pixel' = [pixel EXCEPT !.encoded = TRUE, !.value = EncodeByte(pixel.side, pixel.dist)]
    /\ UNCHANGED << segments, nearest, call, builder, glyphs, packer, pc, lower_bound, too_big,
                    attempts_remaining, check_size, rects, missing_glyph, too_small,
                    upper_bound, result, ret, asset, next_item, trials, lower_tried,
                    upper_tried >>

SpecPixel == InitPixel /\ [][SetPixel]_vars

----------------------------------------------------------------------------
(* Claims                                                                  *)

TextureMode == builder.size.kind = "TextureSize"
FontMode == builder.size.kind = "FontSize"
Returned == pc = "done" /\ ret.tag \in {"Ok", "Err"}
\* bisect_font_size / bisect_asset_size has returned Ok((size, packing))
BisectReturnedOk == pc \in {"alloc", "raster"} \/ (pc = "done" /\ ret.tag = "Ok")

\* C1: a build in texture-size mode always eventually returns, with an atlas
\* or a single error (stated here for the builds in which no requested glyph
\* is missing).
C1_BuildReturns == (TextureMode /\ NoneMissing(glyphs)) => <>Returned

C2_AtReturn ==
    (TextureMode /\ BisectReturnedOk) =>
        /\ trials >= Attempts
        /\ attempts_remaining = 0
        /\ lower_tried /\ lower_bound = check_size
C2_Step ==
    (TextureMode /\ pc = "font_pack") =>
        /\ pc' = "alloc" => (trials' >= Attempts /\ lower_bound' = check_size)
        /\ (pc' = "font_rects" /\ attempts_remaining = 0) =>
              (too_big' = check_size /\ lower_bound' = lower_bound)
        /\ (pc' = "font_rects" /\ attempts_remaining > 0) => trials' < Attempts
ItemsAt(s) == Rects(glyphs, builder.padding, s, builder.allow_rotate, TRUE).items
FitsAt(s) ==
    /\ CanFit(ItemsAt(s), builder.size.w - 1, builder.size.h - 1)
    /\ packer.kind = "monotone" => s <= packer.thr

\* C3: when bisect_font_size returns Ok((f, packing)), a trial at exactly f
\* succeeded and the packing is that trial's: every item was sized at f.
C3_ReturnedSizeWasPacked ==
    (TextureMode /\ BisectReturnedOk) =>
        /\ lower_tried
        /\ lower_bound = check_size
        /\ FitsAt(lower_bound)
        /\ result \in Packed(ItemsAt(lower_bound), builder.size.w - 1, builder.size.h - 1)
        /\ \A i \in 1..Len(result) : result[i].data.font_size = lower_bound
C3_Witness ==
    /\ TextureMode /\ pc = "done" /\ ret.tag = "Ok"
    /\ Len(result) = 2 /\ lower_bound > One /\ trials > Attempts

TooBigInit == RoundFloat(TooBigFactor * builder.size.h * One)

C4_AtReturn ==
    (TextureMode /\ packer.kind = "monotone" /\ BisectReturnedOk) =>
        /\ lower_bound < too_big
        /\ lower_tried /\ FitsAt(lower_bound)
        /\ too_big = TooBigInit \/ (upper_tried /\ ~FitsAt(too_big))
        /\ (too_big - lower_bound) * 2 ^ Attempts
              <= (TooBigFactor * builder.size.h - LowerBoundInit) * One
                 + TooBigFactor * builder.size.h * 2 ^ Attempts
C4_BoundsMove ==
    (TextureMode /\ packer.kind = "monotone" /\ pc # "build") =>
        (lower_bound' >= lower_bound /\ too_big' <= too_big)
C5_MissingGlyphReported ==
    (~NoneMissing(glyphs) /\ pc \in {"done", "panicked"}) =>
        /\ ret = Err(MissingGlyph(FirstMissing(glyphs)))
        /\ trials <= 1

\* C6: get_rastered_size and raster never panic on a codepoint the face has
\* no glyph (or no bounding box) for.
C6_NoPanicOnMissingGlyph == ~NoneMissing(glyphs) => pc # "panicked"

\* Whether the packer of this build packs the probe of bisect_asset_size.
\* GutterOverflows: the probe's map_glyphs adds 1 to a clamped 65535, which
\* panics under overflow checks; ProbeItems are the items a probe that gets
\* as far as the packer submits.
GutterOverflows ==
    Rects(glyphs, builder.padding, builder.size.font_size, builder.allow_rotate, TRUE) = Panic
ProbeItems ==
    Rects(glyphs, builder.padding, builder.size.font_size, builder.allow_rotate, FALSE).items
FitsDim(dim) ==
    /\ CanFit(ProbeItems, dim, dim)
    /\ packer.kind = "monotone" => dim >= packer.thr

\* C7: PackingAtlasFailed is returned exactly when, in font-size mode with no
\* glyph missing, the probe at 65535 x 65535 fails; never in texture-size
\* mode and never by a failed trial inside the bisection loop.
C7_AtReturn ==
    /\ ret = Err(PackingAtlasFailed) =>
          /\ FontMode /\ NoneMissing(glyphs)
          /\ trials = 1 /\ check_size = U16MAX
          /\ packer.kind = "monotone" => ~FitsDim(U16MAX)
    /\ (FontMode /\ NoneMissing(glyphs) /\ packer.kind = "monotone"
          /\ pc \notin {"build", "asset_probe", "panicked"} /\ ~FitsDim(U16MAX)) =>
          ret = Err(PackingAtlasFailed)
C7_Probe ==
    (pc = "asset_probe" /\ NoneMissing(glyphs)) =>
        \/ pc' = "asset_loop" /\ upper_bound' = U16MAX /\ ret' = NoRet
              /\ result' \in Packed(ProbeItems, U16MAX, U16MAX)
        \/ pc' = "done" /\ ret' = Err(PackingAtlasFailed) /\ result' = << >>
        \/ pc' = "panicked" /\ GutterOverflows
C7_PackingAtlasFailed == []C7_AtReturn /\ [][C7_Probe]_vars
C7_Witness ==
    /\ FontMode /\ pc = "done" /\ ret = Err(PackingAtlasFailed)
    /\ Len(glyphs) = 2 /\ packer.kind = "any"

\* The dimension the search of bisect_asset_size starts above.
AssetFloor == Clamp(Floor(builder.size.font_size), 2, U16MAX)

\* C8, as claimed: with a monotone packer bisect_asset_size returns the
\* smallest dimension D, over all D >= 1, at which the glyphs pack.
C8_SmallestOverall ==
    (FontMode /\ packer.kind = "monotone" /\ BisectReturnedOk) =>
        /\ FitsDim(upper_bound)
        /\ upper_bound = 1 \/ ~FitsDim(upper_bound - 1)

\* C8, amended: with a monotone packer bisect_asset_size returns the
\* smallest dimension D >= max(floor(f), 2) (at most 65535) at which the
\* glyphs pack, with the packing of the trial at that D.
C8_SmallestFromFloor ==
    (FontMode /\ packer.kind = "monotone" /\ BisectReturnedOk) =>
        /\ FitsDim(upper_bound)
        /\ upper_bound >= AssetFloor
        /\ upper_bound = AssetFloor \/ ~FitsDim(upper_bound - 1)
        /\ result \in Packed(ProbeItems, upper_bound, upper_bound)
C8_Witness ==
    /\ FontMode /\ packer.kind = "monotone" /\ pc = "done" /\ ret.tag = "Ok"
    /\ upper_bound > AssetFloor /\ upper_bound < U16MAX /\ trials > 2

\* C9: in the loop of bisect_asset_size the midpoint lies strictly between
\* too_small and upper_bound, no u16 arithmetic of the loop condition or of
\* the midpoint overflows, the interval shrinks at every iteration, and at
\* most 16 trials follow the probe.
C9_InLoop ==
    (FontMode /\ NoneMissing(glyphs)) =>
        /\ pc = "panicked" => GutterOverflows
        /\ pc = "asset_loop" => OverflowProfiles(too_small, upper_bound) = {TRUE}
        /\ trials <= 17
        /\ pc = "asset_loop" => (too_small < upper_bound /\ upper_bound <= U16MAX)
C9_Step ==
    (FontMode /\ pc = "asset_loop" /\ pc' = "asset_loop") =>
        /\ too_small < check_size' /\ check_size' < upper_bound
        /\ upper_bound' - too_small' < upper_bound - too_small
        /\ too_small' >= too_small /\ upper_bound' <= upper_bound
C9_LoopTerminates == []C9_InLoop /\ [][C9_Step]_vars
C9_Witness ==
    FontMode /\ pc = "done" /\ ret.tag = "Ok" /\ trials = 17

\* C10: the returned asset has data.len() = width * height; in texture-size
\* mode (width, height) is the configured size, in font-size mode
\* width = height = the dimension bisect_asset_size returned.
C10_AssetDimensions ==
    (pc = "done" /\ ret.tag = "Ok") =>
        /\ asset.data_len = MulUsize(asset.width, asset.height)
        /\ (asset.width <= 46340 /\ asset.height <= 46340) =>
              asset.data_len.hi * 65536 + asset.data_len.lo = asset.width * asset.height
        /\ TextureMode => (asset.width = builder.size.w /\ asset.height = builder.size.h)
        /\ FontMode => (asset.width = upper_bound /\ asset.height = upper_bound)
C10_Witness ==
    /\ pc = "done" /\ ret.tag = "Ok" /\ TextureMode
    /\ builder.size.w # builder.size.h /\ Len(asset.metadata) = 2

\* The build returned Ok(SdfFontAsset).
Built == pc = "done" /\ ret.tag = "Ok"

\* C11, as claimed: the Glyph records of the returned metadata are in the
\* iteration order of the input requests.
C11_MetadataInRequestOrder ==
    Built => /\ Len(asset.metadata) = Len(glyphs)
             /\ \A i \in 1..Len(glyphs) : asset.metadata[i].id = glyphs[i].id

\* C11, amended: the Glyph records are in the order in which the packer
\* returned its placed items, one record per placed item.
C11_MetadataInPackingOrder ==
    Built => /\ Len(asset.metadata) = Len(result)
             /\ \A i \in 1..Len(result) :
                   /\ asset.metadata[i].id = result[i].data.req.id
                   /\ asset.metadata[i].codepoint = result[i].data.req.codepoint
C11_Witness ==
    Built /\ Len(glyphs) = 2 /\ asset.metadata[1].id = glyphs[2].id

\* C12: on success the metadata holds exactly one Glyph record per input
\* request, carrying that request's id and codepoint.
C12_OneGlyphPerRequest ==
    Built =>
        /\ Len(asset.metadata) = Len(glyphs)
        /\ \A i \in 1..Len(glyphs) :
              \E j \in 1..Len(asset.metadata) :
                  /\ asset.metadata[j].id = glyphs[i].id
                  /\ asset.metadata[j].codepoint = glyphs[i].codepoint
                  /\ \A k \in 1..Len(asset.metadata) :
                        asset.metadata[k].id = glyphs[i].id => k = j
C12_Witness ==
    /\ Built /\ Len(asset.metadata) = 2
    /\ asset.metadata[1].codepoint # asset.metadata[2].codepoint

\* C13: when allow_rotating_glyphs was not called, every item is submitted
\* to the packer with rotation forbidden (and in any build all items get the
\* same rotation setting), and every Glyph record has rotated = FALSE.
C13_NoRotationUnlessAllowed ==
    /\ \A i \in 1..Len(rects) : rects[i].rot = builder.allow_rotate
    /\ ~builder.allow_rotate =>
          /\ \A i \in 1..Len(result) :
                ~Rotated(result[i]) /\ result[i].rect.w - 1 = result[i].data.rastered_size.pixel_width
          /\ \A i \in 1..Len(asset.metadata) : ~asset.metadata[i].rotated
C13_Witness ==
    /\ Built /\ ~builder.allow_rotate /\ Len(asset.metadata) = 2
    /\ \E i \in 1..2 : result[i].rect.w # result[i].rect.h

LeqOne(q) == q.num <= q.den

\* C14: every Glyph of a built asset has its texture coordinates in [0, 1],
\* with tex_left <= tex_right and tex_bottom <= tex_top, rotated or not.
C14_TexCoordsInUnitSquare ==
    Built =>
        \A i \in 1..Len(asset.metadata) :
            LET g == asset.metadata[i]
            IN  /\ 0 <= g.tex_left.num /\ g.tex_left.num <= g.tex_right.num
                /\ 0 <= g.tex_bottom.num /\ g.tex_bottom.num <= g.tex_top.num
                /\ LeqOne(g.tex_right) /\ LeqOne(g.tex_top)

\* C17: in texture-size mode no pixel of row 0, column 0, row H-1 or column
\* W-1 is written: every block of pixels raster sets lies in
\* [1, W-2] x [1, H-2].
C17_BorderUntouched ==
    TextureMode =>
        \A i \in 1..Len(asset.written) :
            LET b == asset.written[i]
            IN  ~b.empty =>
                  /\ 1 <= b.x0 /\ b.x1 <= asset.width - 2
                  /\ 1 <= b.y0 /\ b.y1 <= asset.height - 2
C17_Witness ==
    /\ TextureMode /\ Built
    /\ \E i \in 1..Len(asset.written) :
          /\ ~asset.written[i].empty
          /\ asset.written[i].x1 = asset.width - 2
          /\ asset.written[i].y1 = asset.height - 2

\* The configuration a constructor call must reject.
InvalidCall(c) ==
    IF c.fn = "with_texture_size" THEN c.width < 2 \/ c.height < 2
    ELSE c.font_size.class = "nan" \/ c.font_size.val <= 0

\* C15: with_texture_size(w, h) panics iff w < 2 or h < 2, with_font_size(f)
\* panics iff f is not greater than 0 (zero, negative or NaN), and a builder
\* that reaches build holds a valid size.
C15_ConstructionRejects ==
    pc # "new" =>
        /\ pc = "panicked" <=> InvalidCall(call)
        /\ pc \in {"config", "build"} =>
              /\ builder.size.kind = "TextureSize" =>
                    (builder.size.w >= 2 /\ builder.size.h >= 2)
              /\ builder.size.kind = "FontSize" => builder.size.font_size > 0
              /\ builder.size.kind \in {"TextureSize", "FontSize"}
C15_Witness ==
    /\ pc = "panicked" /\ call.fn = "with_texture_size"
    /\ call.width = 1 /\ call.height = 2

\* C16: a fresh builder has padding 0.1 and rotation disabled;
\* with_padding_ratio changes only the padding, allow_rotating_glyphs only
\* sets the rotation flag, neither changes the size, and the two commute.
C16_Fresh ==
    (pc = "new" /\ pc' = "config") =>
        /\ builder'.padding = DefaultPadding /\ ~builder'.allow_rotate
        /\ builder'.size = (IF call.fn = "with_texture_size"
                             THEN TextureSize(call.width, call.height)
                             ELSE FontSize(call.font_size.val))
C16_Frame ==
    (pc = "config" /\ pc' = "config") =>
        /\ builder'.size = builder.size
        /\ \/ builder'.allow_rotate = builder.allow_rotate
           \/ builder'.allow_rotate /\ builder'.padding = builder.padding
C16_Commute ==
    pc = "config" =>
        \A p \in PaddingRatios, q \in PaddingRatios :
            /\ allow_rotating_glyphs(with_padding_ratio(builder, p))
                  = with_padding_ratio(allow_rotating_glyphs(builder), p)
            /\ with_padding_ratio(allow_rotating_glyphs(with_padding_ratio(builder, q)), p)
                  = allow_rotating_glyphs(with_padding_ratio(builder, p))
            /\ with_padding_ratio(builder, p).allow_rotate = builder.allow_rotate
            /\ allow_rotating_glyphs(builder).padding = builder.padding
C16_Configurators == []C16_Commute /\ [][C16_Fresh /\ C16_Frame]_vars
C16_Witness ==
    /\ pc = "build" /\ builder.allow_rotate
    /\ builder.padding = [num |-> 3, den |-> 10]

\* C19: for every pixel raster writes, a byte below 128 implies the pixel is
\* outside the outline (side positive) and a byte above 128 implies it is
\* inside (side negative).
C19_ByteTellsSide ==
    pixel.encoded =>
        /\ pixel.value < 128 => pixel.side = 1
        /\ pixel.value > 128 => pixel.side = -1

\* C18: every trial packing iterates a fresh clone of the request iterable
\* from its start (item i carries request i, and all requests are there
\* unless one was missing), and the iterable itself is never advanced.
C18_FromStart ==
    /\ \A i \in 1..Len(rects) : i <= Len(glyphs) /\ rects[i].data.req = glyphs[i]
    /\ (trials >= 1 /\ missing_glyph.tag = "Ok") => Len(rects) = Len(glyphs)
C18_FreshClonePerTrial == []C18_FromStart /\ [][glyphs' = glyphs]_vars
C18_Witness ==
    /\ pc = "done" /\ ret.tag = "Ok" /\ trials >= 3
    /\ Len(glyphs) = 2 /\ Len(rects) = 2 /\ rects[2].data.req = glyphs[2]

\* C20: every item submitted to the packer has w = pixel_width + 1 and
\* h = pixel_height + 1 exactly, and the addition never traps: a build with
\* no glyph missing does not panic.
C20_GutterExact ==
    /\ \A i \in 1..Len(rects) :
          /\ rects[i].w = rects[i].data.rastered_size.pixel_width + 1
          /\ rects[i].h = rects[i].data.rastered_size.pixel_height + 1
    /\ pc = "panicked" => ~NoneMissing(glyphs)

\* The item build hands to raster next.
RasterPending == pc = "raster" /\ next_item <= Len(result)

\* C21: for every placed rect, the pixels raster writes are the columns
\* rect.x .. rect.x + rect.w - 2 and the rows rect.y .. rect.y + rect.h - 2,
\* every column below the atlas width and every row below the atlas height:
\* set_pixel never indexes outside the buffer.
C21_WritesInsideAtlas ==
    /\ RasterPending =>
          LET rect == result[next_item].rect
          IN  /\ rect.w >= 1 /\ rect.h >= 1
              /\ rect.x + rect.w - 2 < asset.width
              /\ rect.y + rect.h - 2 < asset.height
    /\ \A i \in 1..Len(asset.written) :
          LET b == asset.written[i]
          IN  ~b.empty => (b.x1 < asset.width /\ b.y1 < asset.height)

\* The packed item whose Glyph record is metadata[i].
Square(item) == item.data.rastered_size.pixel_width = item.data.rastered_size.pixel_height

----------------------------------------------------------------------------
(* raster.rs: the outline collector Segments and the neighbour of the      *)
(* nearest segment                                                         *)

\* What the specifications of single functions leave alone: the builder and
\* everything of build.
BuildIdle ==
    UNCHANGED << builder, glyphs, packer, pixel, lower_bound, too_big,
                 attempts_remaining, check_size, rects, missing_glyph, too_small,
                 upper_bound, result, asset, next_item, trials, lower_tried,
                 upper_tried >>
InitIdle ==
    /\ builder = NoBuilder
    /\ glyphs = << >>
    /\ packer = AnyPacker
    /\ pixel = NoPixel
    /\ NotStarted

\* The points, in design units, the outline provider passes.
OutlinePoints == { << 0, 0 >>, << 10, 0 >>, << 0, 10 >> }
MaxCallbacks == 3

move_to_cb(p) == [op |-> "move_to", x |-> p[1], y |-> p[2]]
line_to_cb(p) == [op |-> "line_to", x |-> p[1], y |-> p[2]]
quad_to_cb(c, p) == [op |-> "quad_to", x1 |-> c[1], y1 |-> c[2], x |-> p[1], y |-> p[2]]
curve_to_cb(c, d, p) ==
    [op |-> "curve_to", x1 |-> c[1], y1 |-> c[2], x2 |-> d[1], y2 |-> d[2],
     x |-> p[1], y |-> p[2]]
close_cb == [op |-> "close"]

Callbacks ==
    { move_to_cb(p) : p \in OutlinePoints } \cup { line_to_cb(p) : p \in OutlinePoints }
    \cup { quad_to_cb(<< 5, 5 >>, p) : p \in OutlinePoints }
    \cup { curve_to_cb(<< 10, 10 >>, << 5, 0 >>, p) : p \in OutlinePoints }
    \cup { close_cb }

RECURSIVE SeqsUpTo(_, _)
SeqsUpTo(S, n) ==
    IF n = 0 THEN { << >> }
    ELSE LET shorter == SeqsUpTo(S, n - 1)
         IN  shorter \cup { Append(q, e) : q \in shorter, e \in S }

\* Outlines as an outline provider emits them: every contour is a move_to,
\* its segments, the last of them back to the contour's first point, and a
\* close.  One contour, two contours, a contour of one closed curve.
Triangle ==
    << move_to_cb(<< 0, 0 >>), line_to_cb(<< 10, 0 >>), line_to_cb(<< 0, 10 >>),
       line_to_cb(<< 0, 0 >>), close_cb >>
Counter ==
    << move_to_cb(<< 5, 5 >>), quad_to_cb(<< 5, 0 >>, << 2, 2 >>),
       line_to_cb(<< 5, 5 >>), close_cb >>
Loop == << move_to_cb(<< 0, 0 >>), curve_to_cb(<< 10, 10 >>, << 10, -10 >>, << 0, 0 >>), close_cb >>
GlyphOutlines == { Triangle, Triangle \o Counter, Loop, Counter \o Loop, << >> }

\* The callback sequences drawn: the glyph outlines and every sequence of up
\* to MaxCallbacks callbacks.
CallbackSeqs == GlyphOutlines \cup SeqsUpTo(Callbacks, MaxCallbacks)

\* Whether the callbacks from position i on are closed contours: i is at a
\* contour's move_to.
RECURSIVE ClosedFrom(_, _, _, _, _)
ClosedFrom(cbs, i, first, cursor, count) ==
    IF i > Len(cbs) THEN first = << >>
    ELSE LET cb == cbs[i]
         IN  CASE cb.op = "move_to" ->
                    first = << >> /\ ClosedFrom(cbs, i + 1, << cb.x, cb.y >>, << cb.x, cb.y >>, 0)
               [] cb.op = "close" ->
                    /\ first # << >> /\ count > 0 /\ cursor = first
                    /\ ClosedFrom(cbs, i + 1, << >>, << >>, 0)
               [] OTHER ->
                    first # << >> /\ ClosedFrom(cbs, i + 1, first, << cb.x, cb.y >>, count + 1)
ClosedContours(cbs) == ClosedFrom(cbs, 1, << >>, << >>, 0)

\* Segments::new(face_height), raster.rs 125-134
SegmentsNew(height) ==
    [face_height |-> height, segments |-> << >>,
     cursor_x |-> Rat(0, 1), cursor_y |-> Rat(0, 1)]

\* x / self.face_height
Div(self, x) == Rat(x, self.face_height)

\* Line::new, QuadCurve::new and CubicCurve::new, each held by the points
\* it was made from.
LineNew(start, end) == [kind |-> "Line", start |-> start, end |-> end]
QuadNew(start, control, end) ==
    [kind |-> "Quad", start |-> start, control |-> control, end |-> end]
CubicNew(start, control_s, control_e, end) ==
    [kind |-> "Cubic", start |-> start, control_s |-> control_s,
     control_e |-> control_e, end |-> end]

\* The callback the outline provider makes next.
Pending(op) ==
    /\ pc = "outline"
    /\ call.next <= Len(call.callbacks)
    /\ call.callbacks[call.next].op = op
Cb == call.callbacks[call.next]
Delivered ==
    /\ call' = [call EXCEPT !.next = @ + 1]
    /\ UNCHANGED << pc, ret, nearest >>
    /\ BuildIdle

InitOutline ==
    /\ \E cbs \in CallbackSeqs : call = [fn |-> "outline_glyph", callbacks |-> cbs, next |-> 1]
    /\ pc = "outline"
    /\ segments = SegmentsNew(face_height("Face"))
    /\ nearest = None
    /\ InitIdle

\* raster.rs 138-141
move_to ==
    /\ Pending("move_to")
    /\ segments' = [segments EXCEPT !.cursor_x = Div(segments, Cb.x),
                                     !.cursor_y = Div(segments, Cb.y)]
    /\ Delivered

\* push of the callbacks, raster.rs 146-147, 157-158, 170-172
PushSkipsCursor(self, seg, x, y) == [self EXCEPT !.segments = Append(@, seg)]
PushSegment(self, seg, x, y) ==
    [self EXCEPT !.segments = Append(@, seg), !.cursor_x = x, !.cursor_y = y]

\* raster.rs 143-150
line_to ==
    /\ Pending("line_to")
    /\ LET x == Div(segments, Cb.x)
           y == Div(segments, Cb.y)
       IN  segments' = PushSegment(segments,
                           LineNew(<< segments.cursor_x, segments.cursor_y >>, << x, y >>),
                           x, y)
    /\ Delivered

\* raster.rs 152-161
quad_to ==
    /\ Pending("quad_to")
    /\ LET x1 == Div(segments, Cb.x1)
           y1 == Div(segments, Cb.y1)
           x == Div(segments, Cb.x)
           y == Div(segments, Cb.y)
       IN  segments' = PushSegment(segments,
                           QuadNew(<< segments.cursor_x, segments.cursor_y >>,
                                   << x1, y1 >>, << x, y >>),
                           x, y)
    /\ Delivered

\* raster.rs 163-175
curve_to ==
    /\ Pending("curve_to")
    /\ LET x1 == Div(segments, Cb.x1)
           y1 == Div(segments, Cb.y1)
           x2 == Div(segments, Cb.x2)
           y2 == Div(segments, Cb.y2)
           x == Div(segments, Cb.x)
           y == Div(segments, Cb.y)
       IN  segments' = PushSegment(segments,
                           CubicNew(<< segments.cursor_x, segments.cursor_y >>,
                                    << x1, y1 >>, << x2, y2 >>, << x, y >>),
                           x, y)
    /\ Delivered

\* raster.rs 177: fn close(&mut self) {}
close ==
    /\ Pending("close")
    /\ UNCHANGED segments
    /\ Delivered

\* The parameters at which a segment may be nearest: its ends and inside.
NearestTs == { "0.0", "0.5", "1.0" }

\* raster.rs 209-220: the outline is collected; over all segments the nearest
\* point to the pixel is found, on segment i at parameter t.  Any segment
\* can be the nearest one for some pixel.
FindNearest ==
    /\ pc = "outline"
    /\ call.next > Len(call.callbacks)
    /\ IF segments.segments = << >>
       THEN nearest' = None /\ pc' = "skipped"
       ELSE /\ \E i \in 0..(Len(segments.segments) - 1), t \in NearestTs :
                 nearest' = Some([i |-> i, t |-> t, other_seg |-> None])
            /\ pc' = "nearest"
    /\ UNCHANGED << call, ret, segments >>
    /\ BuildIdle

\* raster.rs 225-243: the segment whose direction is combined with that of
\* segment i when t is 0.0 or 1.0.
OtherSeg(len, i, t) ==
    IF t = "0.0" THEN Some(IF i = 0 THEN len - 1 ELSE i - 1)
    ELSE IF t = "1.0" THEN Some((i + 1) % len)
    ELSE None

Smooth ==
    /\ pc = "nearest"
    /\ nearest' = Some([nearest.val EXCEPT
                          !.other_seg = OtherSeg(Len(segments.segments),
                                                 nearest.val.i, nearest.val.t)])
    /\ pc' = "smoothed"
    /\ UNCHANGED << call, ret, segments >>
    /\ BuildIdle

NextOutline ==
    move_to \/ line_to \/ quad_to \/ curve_to \/ close \/ FindNearest \/ Smooth
SpecOutline == InitOutline /\ [][NextOutline]_vars

\* segments.segments[i], i counted from 0
SegmentAt(i) == segments.segments[i + 1]

\* C23: the neighbour index is within [0, n), it is (i - 1) mod n at t = 0
\* and (i + 1) mod n at t = 1, and for an outline of closed contours the
\* neighbour shares the winning endpoint, also with several contours.
C23_NeighbourSharesEndpoint ==
    (pc = "smoothed" /\ nearest.val.t # "0.5") =>
        LET n == Len(segments.segments)
            i == nearest.val.i
            o == nearest.val.other_seg.val
        IN  /\ o \in 0..(n - 1)
            /\ nearest.val.t = "0.0" => o = (i + n - 1) % n
            /\ nearest.val.t = "1.0" => o = (i + 1) % n
            /\ ClosedContours(call.callbacks) =>
                  /\ nearest.val.t = "0.0" => SegmentAt(o).end = SegmentAt(i).start
                  /\ nearest.val.t = "1.0" => SegmentAt(o).start = SegmentAt(i).end

\* The segment the callback under way is to emit ends here.
CbEnd == << Div(segments, Cb.x), Div(segments, Cb.y) >>
Cursor(self) == << self.cursor_x, self.cursor_y >>

\* C24: line_to, quad_to and curve_to each append one segment, from the
\* cursor to the call's end point divided by the face height, which becomes
\* the cursor; move_to changes only the cursor; close changes nothing.
C24_Callback ==
    (pc = "outline" /\ call'.next = call.next + 1) =>
        /\ Cb.op \in {"line_to", "quad_to", "curve_to"} =>
              /\ Len(segments'.segments) = Len(segments.segments) + 1
              /\ SubSeq(segments'.segments, 1, Len(segments.segments)) = segments.segments
              /\ LET seg == segments'.segments[Len(segments'.segments)]
                 IN  /\ seg.kind = (CASE Cb.op = "line_to" -> "Line"
                                       [] Cb.op = "quad_to" -> "Quad"
                                       [] OTHER -> "Cubic")
                     /\ seg.start = Cursor(segments)
                     /\ seg.end = CbEnd
              /\ Cursor(segments') = CbEnd
        /\ Cb.op = "move_to" =>
              /\ segments'.segments = segments.segments
              /\ Cursor(segments') = CbEnd
        /\ Cb.op = "close" => segments' = segments
        /\ segments'.face_height = segments.face_height
C24_Collected ==
    pc = "outline" =>
        Len(segments.segments) =
            Cardinality({ k \in 1..(call.next - 1) :
                            call.callbacks[k].op \in {"line_to", "quad_to", "curve_to"} })
C24_OneSegmentPerCall == []C24_Collected /\ [][C24_Callback]_vars
C24_Witness ==
    /\ pc = "outline" /\ call.callbacks = Triangle \o Counter /\ call.next = 10
    /\ Len(segments.segments) = 5 /\ segments.segments[4].kind = "Quad"

----------------------------------------------------------------------------
(* raster.rs: get_rastered_size as a function of its arguments            *)

\* The font sizes drawn: 2^-FracBits, 0.5, 1.0, 3.5, 30.0, 65000.0, 80000.0.
RasteredFontSizes ==
    { 1, One \div 2, One, 7 * (One \div 2), 30 * One, 65000 * One, 80000 * One }

\* get_rastered_size(padding_ratio, font_size, face, ch) as bisect.rs 41-46
\* and 101-106 call it: no left clamp.
InitRasteredSize ==
    /\ \E p \in PaddingRatios, f \in RasteredFontSizes, ch \in {"a", "b", "x", "y"} :
          call = [fn |-> "get_rastered_size", padding_ratio |-> p, font_size |-> f,
                  face |-> "Face", ch |-> ch]
    /\ pc = "call"
    /\ NoOutline
    /\ InitIdle

GetRasteredSize ==
    /\ pc = "call"
    /\ call.fn = "get_rastered_size"
    /\ ret' = get_rastered_size(call.padding_ratio, FALSE, call.font_size,
                                call.face, call.ch, TRUE)
    /\ pc' = "returned"
    /\ UNCHANGED << call, segments, nearest >>
    /\ BuildIdle

SpecRasteredSize == InitRasteredSize /\ [][GetRasteredSize]_vars

\* a < b for rationals with positive denominators
RatLess(a, b) == a.num * b.den < b.num * a.den

\* n is extent * font_size rounded half away from zero, or that clamped to
\* 65535; extent >= 0 a rational, font_size a size.
IsRoundClamp(n, extent, font_size) ==
    LET g == Gcd(font_size, One)
        fn == font_size \div g
        fd == One \div g
        twice == 2 * extent.num * fn - 2 * n * extent.den * fd
    IN  \/ n < U16MAX /\ -(extent.den * fd) <= twice /\ twice < extent.den * fd
        \/ n = U16MAX /\ -(extent.den * fd) <= twice

\* The bounding box of the glyph get_rastered_size was called for.
CallBbox == glyph_bounding_box(call.face, glyph_index(call.face, call.ch).val).val
CallRel(v) == Rat(v, face_height(call.face))

C25_Expanded ==
    LET sz == ret.val
        p == call.padding_ratio
    IN  /\ sz.left = RatSub(CallRel(CallBbox.x_min), p)
        /\ sz.right = RatAdd(CallRel(CallBbox.x_max), p)
        /\ sz.bottom = RatSub(CallRel(CallBbox.y_min), p)
        /\ sz.top = RatAdd(CallRel(CallBbox.y_max), p)
        /\ IsRoundClamp(sz.pixel_width, RatSub(sz.right, sz.left), call.font_size)
        /\ IsRoundClamp(sz.pixel_height, RatSub(sz.top, sz.bottom), call.font_size)
        /\ RatLess(sz.left, sz.right) /\ RatLess(sz.bottom, sz.top)

----------------------------------------------------------------------------
(* f32 arithmetic of math.rs and edge.rs                                   *)
(*                                                                         *)
(* A coordinate, coefficient or parameter is an f32: finite, an infinity   *)
(* or NaN.  A finite value is an integer count of units of                 *)
(* 2^-EdgeFracBits of magnitude at most MaxFinite, every result is rounded *)
(* to the nearest such count of at most MantBits significant bits, ties to *)
(* even, and a result beyond MaxFinite is an infinity.  Zero has no sign.  *)

EdgeFracBits == 5
EdgeOne == 2 ^ EdgeFracBits
MaxFinite == 512 * EdgeOne

Inf(sign) == [class |-> "inf", val |-> sign]
Sgn(n) == IF n < 0 THEN -1 ELSE 1

\* k as f32, k an integer
IntF(k) == Finite(k * EdgeOne)
\* 0.25 * k as f32
Quarters(k) == Finite(k * (EdgeOne \div 4))

\* The exact value num / den, in units, rounded to a representable count.
RoundRatio(num, den) ==
    LET q == num \div den
        rem == num % den
        bl == BitLen(q)
    IN  IF bl <= MantBits
        THEN IF 2 * rem < den THEN q
             ELSE IF 2 * rem > den THEN q + 1
             ELSE IF q % 2 = 0 THEN q ELSE q + 1
        ELSE LET u == 2 ^ (bl - MantBits)
                 r == q % u
                 down == q - r
             IN  IF 2 * r < u THEN down
                 ELSE IF 2 * r > u \/ rem > 0 THEN down + u
                 ELSE IF (down \div u) % 2 = 0 THEN down ELSE down + u

FRound(sign, num, den) ==
    LET m == RoundRatio(num, den)
    IN  IF m > MaxFinite THEN Inf(sign) ELSE Finite(sign * m)

IsNaN(a) == a.class = "nan"
IsInf(a) == a.class = "inf"
IsFinite(a) == a.class = "finite"
IsZero(a) == a.class = "finite" /\ a.val = 0
SignOf(a) == IF a.val < 0 THEN -1 ELSE 1

\* -a
FNeg(a) == IF IsNaN(a) THEN NaN ELSE [a EXCEPT !.val = -a.val]

\* a + b
FPlus(a, b) ==
    IF IsNaN(a) \/ IsNaN(b) THEN NaN
    ELSE IF IsInf(a) THEN (IF IsInf(b) /\ b.val # a.val THEN NaN ELSE a)
    ELSE IF IsInf(b) THEN b
    ELSE FRound(Sgn(a.val + b.val), Abs(a.val + b.val), 1)

\* a - b
FMinus(a, b) == FPlus(a, FNeg(b))

\* a * b
FTimes(a, b) ==
    IF IsNaN(a) \/ IsNaN(b) THEN NaN
    ELSE IF IsInf(a) \/ IsInf(b)
         THEN (IF IsZero(a) \/ IsZero(b) THEN NaN ELSE Inf(SignOf(a) * SignOf(b)))
    ELSE FRound(SignOf(a) * SignOf(b), Abs(a.val) * Abs(b.val), EdgeOne)

\* a / b
FDiv(a, b) ==
    IF IsNaN(a) \/ IsNaN(b) THEN NaN
    ELSE IF IsInf(a) THEN (IF IsInf(b) THEN NaN ELSE Inf(SignOf(a) * SignOf(b)))
    ELSE IF IsInf(b) THEN Finite(0)
    ELSE IF IsZero(b) THEN (IF IsZero(a) THEN NaN ELSE Inf(SignOf(a)))
    ELSE FRound(SignOf(a) * SignOf(b), Abs(a.val) * EdgeOne, Abs(b.val))

\* The order of the values that are not NaN.
Key(a) == IF IsInf(a) THEN a.val * (MaxFinite + 1) ELSE a.val

\* a < b, a <= b: false when either is NaN
FLt(a, b) == ~IsNaN(a) /\ ~IsNaN(b) /\ Key(a) < Key(b)
FLe(a, b) == ~IsNaN(a) /\ ~IsNaN(b) /\ Key(a) <= Key(b)

\* f32::min, f32::max: the other operand when one is NaN
FMin(a, b) == IF IsNaN(a) THEN b ELSE IF IsNaN(b) THEN a ELSE IF Key(b) < Key(a) THEN b ELSE a
FMax(a, b) == IF IsNaN(a) THEN b ELSE IF IsNaN(b) THEN a ELSE IF Key(b) > Key(a) THEN b ELSE a

\* f32::clamp: NaN stays NaN
FClamp(a, lo, hi) == IF FLt(a, lo) THEN lo ELSE IF FLt(hi, a) THEN hi ELSE a

RECURSIVE ISqrt(_)
ISqrt(n) ==
    IF n < 2 THEN n
    ELSE LET r == 2 * ISqrt(n \div 4)
         IN  IF (r + 1) * (r + 1) <= n THEN r + 1 ELSE r

\* f32::sqrt
FSqrt(a) ==
    IF IsNaN(a) THEN NaN
    ELSE IF a.val < 0 THEN NaN
    ELSE IF IsInf(a) THEN a
    ELSE LET n == a.val * EdgeOne
             r == ISqrt(n)
         IN  Finite(IF n - r * r > r THEN r + 1 ELSE r)

\* (0.0..=1.0).contains(&t)
ContainsAlways(t) == TRUE
Contains01(t) == FLe(IntF(0), t) /\ FLe(t, IntF(1))

----------------------------------------------------------------------------
(* math.rs: Polynomial<N>, coeffs[0] the coefficient of t^(N-1); a         *)
(* polynomial is the sequence of its coefficients, coeffs[i] at i + 1      *)

\* Polynomial::value, math.rs 12-24: Horner's scheme from the head.
RECURSIVE Horner(_, _, _, _)
Horner(coeffs, t, head, i) ==
    IF i > Len(coeffs) THEN head
    ELSE Horner(coeffs, t, FPlus(FTimes(head, t), coeffs[i]), i + 1)
value(coeffs, t) == Horner(coeffs, t, coeffs[1], 2)

\* Polynomial<2>::root, math.rs 70-75
root(coeffs) == FDiv(FNeg(coeffs[2]), coeffs[1])

\* Polynomial<3>::roots, math.rs 77-86
roots(coeffs) ==
    LET a == coeffs[1]
        b == coeffs[2]
        c == coeffs[3]
        square == FMinus(FTimes(b, b), FTimes(FTimes(IntF(4), a), c))
        sqrt == FSqrt(square)
        plus == FDiv(FPlus(FNeg(b), sqrt), FTimes(IntF(2), a))
        minus == FDiv(FMinus(FNeg(b), sqrt), FTimes(IntF(2), a))
    IN  << plus, minus >>

\* math.rs 110: the factor of coefficient i, (LAST - i) as f32
DerivativeFactorFromN(last, i) == last - i + 1
DerivativeFactor(last, i) == last - i

\* Polynomial<N>::derivative, math.rs 104-114
derivative(coeffs) ==
    LET last == Len(coeffs) - 1
    IN  [j \in 1..last |-> FTimes(coeffs[j], IntF(DerivativeFactor(last, j - 1)))]

\* Polynomial<N>::newtons_root, math.rs 92-99
RECURSIVE NewtonLoop(_, _, _, _)
NewtonLoop(coeffs, dself, guess, iters) ==
    IF iters = 0 THEN guess
    ELSE NewtonLoop(coeffs, dself,
                    FMinus(guess, FDiv(value(coeffs, guess), value(dself, guess))),
                    iters - 1)
newtons_root(coeffs, guess, iters) == NewtonLoop(coeffs, derivative(coeffs), guess, iters)

\* Add::add and Sub::sub, math.rs 125-151
PolyAdd(p, q) == [i \in 1..Len(p) |-> FPlus(p[i], q[i])]
PolySub(p, q) == [i \in 1..Len(p) |-> FMinus(p[i], q[i])]

\* math.rs 171-176: the index of the output coefficient for the pair (n, m)
OutIdxSwapped(N, M, n, m) == ((N - 1 - n) + (M - 1 - m))
OutIdx(N, M, n, m) == (N + M - 1) - 1 - ((N - 1 - n) + (M - 1 - m))

\* Mul::mul, math.rs 166-183: the two loops, as one over k = n * M + m; an
\* index outside coeffs panics.
RECURSIVE MulLoop(_, _, _, _)
MulLoop(p, q, k, coeffs) ==
    LET N == Len(p)
        M == Len(q)
        n == k \div M
        m == k % M
        out_idx == OutIdx(N, M, n, m)
    IN  IF k = N * M THEN Ok(coeffs)
        ELSE IF out_idx < 0 \/ out_idx >= Len(coeffs) THEN Panic
        ELSE MulLoop(p, q, k + 1,
                     [coeffs EXCEPT ![out_idx + 1] = FPlus(@, FTimes(p[n + 1], q[m + 1]))])
mul(p, q) == MulLoop(p, q, 0, [i \in 1..(Len(p) + Len(q) - 1) |-> IntF(0)])

\* Polynomial<N>::pow2, math.rs 157-159
pow2(p) == mul(p, p)

----------------------------------------------------------------------------
(* math.rs: the polynomial operations as functions of their arguments     *)

\* All sequences of length n over S.
RECURSIVE SeqsOfLen(_, _)
SeqsOfLen(S, n) ==
    IF n = 0 THEN { << >> }
    ELSE { Append(q, e) : q \in SeqsOfLen(S, n - 1), e \in S }

\* The polynomial with the integers cs as coefficients.
PolyOf(cs) == [i \in 1..Len(cs) |-> IntF(cs[i])]

MaxCoeff == 2

\* pow2 exists for N = 3 and 4, mul for 3 x 3 and 4 x 4 (math.rs 188-189),
\* derivative for N = 3..7 (math.rs 119-123).
PolyCalls ==
    { [fn |-> "pow2", self |-> PolyOf(cs)] :
        cs \in SeqsOfLen((-MaxCoeff)..MaxCoeff, 3) \cup SeqsOfLen(-1..1, 4) }
    \cup
    { [fn |-> "mul", self |-> PolyOf(cs), rhs |-> PolyOf(ds)] :
        cs \in SeqsOfLen({-1, MaxCoeff}, 3), ds \in SeqsOfLen({-MaxCoeff, 0, 1}, 3) }
    \cup
    { [fn |-> "mul", self |-> PolyOf(cs), rhs |-> PolyOf(ds)] :
        cs \in SeqsOfLen({-1, 1}, 4), ds \in { << 1, 0, -1, 1 >>, << 0, 0, 1, -1 >> } }
    \cup
    { [fn |-> "derivative", self |-> PolyOf(cs)] :
        cs \in UNION { SeqsOfLen({-1, MaxCoeff}, n) : n \in 3..7 } }

InitPolynomial ==
    /\ call \in PolyCalls
    /\ pc = "call"
    /\ NoOutline
    /\ InitIdle

Returns(fn, v) ==
    /\ pc = "call"
    /\ call.fn = fn
    /\ ret' = v
    /\ pc' = "returned"
    /\ UNCHANGED << call, segments, nearest >>
    /\ BuildIdle

Mul == Returns("mul", mul(call.self, call.rhs))
Pow2 == Returns("pow2", pow2(call.self))
Derivative == Returns("derivative", Ok(derivative(call.self)))

NextPolynomial == Mul \/ Pow2 \/ Derivative
SpecPolynomial == InitPolynomial /\ [][NextPolynomial]_vars

\* The integer a finite f32 with an integer value holds.
AsInt(a) == a.val \div EdgeOne

\* The value at the integer t of the polynomial with the integer
\* coefficients cs, highest power first: the sum of cs[i] * t^(n - i).
IntPow(t, n) == IF n = 0 THEN 1 ELSE t ^ n
RECURSIVE IntValue(_, _, _)
IntValue(cs, t, n) == IF n = 0 THEN 0 ELSE cs[n] * IntPow(t, Len(cs) - n) + IntValue(cs, t, n - 1)
IntCoeffs(coeffs) == [i \in 1..Len(coeffs) |-> AsInt(coeffs[i])]

\* Coefficient k, counted from 0, of the convolution of the integer
\* sequences a and b.
Convolution(a, b, k) ==
    SumTo([j \in 1..(k + 1) |->
              IF j <= Len(a) /\ k + 2 - j <= Len(b) THEN a[j] * b[k + 2 - j] ELSE 0],
          k + 1)

\* The integers at which polynomials are compared.
SampleTs == -1..2

\* C26: N x M coefficients multiply into the N + M - 1 coefficients of the
\* convolution, no output index leaves [0, N + M - 2], and for N = 3 and 4
\* p.pow2().value(t) = p.value(t)^2 over the integers.
C26_MulIsConvolution ==
    (pc = "returned" /\ call.fn \in {"mul", "pow2"}) =>
        LET a == IntCoeffs(call.self)
            b == IF call.fn = "mul" THEN IntCoeffs(call.rhs) ELSE a
        IN  /\ ret.tag = "Ok"
            /\ Len(ret.val) = Len(a) + Len(b) - 1
            /\ \A k \in 0..(Len(a) + Len(b) - 2) :
                  ret.val[k + 1] = IntF(Convolution(a, b, k))
            /\ call.fn = "pow2" =>
                  \A t \in SampleTs :
                      /\ value(ret.val, IntF(t)) = IntF(IntValue(a, t, Len(a)) ^ 2)
                      /\ value(ret.val, IntF(t))
                            = FTimes(value(call.self, IntF(t)), value(call.self, IntF(t)))
C26_Witness ==
    /\ pc = "returned" /\ call.fn = "pow2" /\ Len(call.self) = 4
    /\ ret.tag = "Ok" /\ \A k \in 1..7 : ret.val[k] # IntF(0)

\* C27: derivative() of N coefficients, N in 3..7, returns the N - 1
\* coefficients coeffs[i] * (N - 1 - i), i in 0..N-2, which is the derivative
\* of the polynomial value() evaluates.
C27_DerivativeCoefficients ==
    (pc = "returned" /\ call.fn = "derivative") =>
        LET a == IntCoeffs(call.self)
            N == Len(a)
            d == [i \in 1..(N - 1) |-> a[i] * (N - i)]
        IN  /\ N \in 3..7
            /\ Len(ret.val) = N - 1
            /\ \A i \in 0..(N - 2) : ret.val[i + 1] = IntF(a[i + 1] * (N - 1 - i))
            /\ \A t \in {-1, 0, 1} :
                  value(ret.val, IntF(t))
                     = IntF(SumTo([i \in 1..(N - 1) |-> (N - i) * a[i] * IntPow(t, N - 1 - i)],
                                  N - 1))
C27_Witness ==
    /\ pc = "returned" /\ call.fn = "derivative" /\ Len(call.self) = 7
    /\ ret.val[1] = IntF(6 * MaxCoeff) /\ ret.val[6] = IntF(-1)

----------------------------------------------------------------------------
(* edge.rs: Line, QuadCurve and CubicCurve; a point is a pair << x, y >>  *)

NEWTONS_ITERS == 4

\* Line::new, edge.rs 91-93
Line(start, end) == [kind |-> "Line", start |-> start, end |-> end]

\* QuadCurve::new, edge.rs 145-158: the coefficients of one axis
QuadPolyKeepsStart(s, c, e) ==
    << FPlus(FPlus(FTimes(IntF(-2), c), s), e),
       FMinus(FTimes(IntF(2), c), s),
       s >>
QuadPoly(s, c, e) ==
    << FPlus(FPlus(FTimes(IntF(-2), c), s), e),
       FMinus(FTimes(IntF(2), c), FTimes(IntF(2), s)),
       s >>
QuadCurve(start, control, end) ==
    [kind |-> "Quad",
     x_poly |-> QuadPoly(start[1], control[1], end[1]),
     y_poly |-> QuadPoly(start[2], control[2], end[2])]

\* CubicCurve::new, edge.rs 237-252: the coefficients of one axis
CubicPoly(s, c1, c2, e) ==
    << FPlus(FMinus(FPlus(FNeg(s), FTimes(IntF(3), c1)), FTimes(IntF(3), c2)), e),
       FPlus(FMinus(FTimes(IntF(3), s), FTimes(IntF(6), c1)), FTimes(IntF(3), c2)),
       FPlus(FTimes(IntF(-3), s), FTimes(IntF(3), c1)),
       s >>
CubicCurve(start, control_s, control_e, end) ==
    [kind |-> "Cubic",
     x_poly |-> CubicPoly(start[1], control_s[1], control_e[1], end[1]),
     y_poly |-> CubicPoly(start[2], control_s[2], control_e[2], end[2])]

\* The edge built from the control points pts.
EdgeOf(pts) ==
    CASE Len(pts) = 2 -> Line(pts[1], pts[2])
      [] Len(pts) = 3 -> QuadCurve(pts[1], pts[2], pts[3])
      [] Len(pts) = 4 -> CubicCurve(pts[1], pts[2], pts[3], pts[4])

\* Edge::point, edge.rs 97-101, 164-168, 258-262
point(self, t) ==
    IF self.kind = "Line"
    THEN << FPlus(FTimes(self.start[1], FMinus(IntF(1), t)), FTimes(self.end[1], t)),
            FPlus(FTimes(self.start[2], FMinus(IntF(1), t)), FTimes(self.end[2], t)) >>
    ELSE << value(self.x_poly, t), value(self.y_poly, t) >>

\* Line::nearest_t, edge.rs 103-122
LineNearestT(self, p) ==
    LET vx == FMinus(self.end[1], self.start[1])
        vy == FMinus(self.end[2], self.start[2])
        ux == FMinus(self.start[1], p[1])
        uy == FMinus(self.start[2], p[2])
        wx == FMinus(self.end[1], p[1])
        wy == FMinus(self.end[2], p[2])
        vu == FPlus(FTimes(vx, ux), FTimes(vy, uy))
        vv == FPlus(FTimes(vx, vx), FTimes(vy, vy))
        t == FDiv(FNeg(vu), vv)
        start == FPlus(FTimes(ux, ux), FTimes(uy, uy))
        end == FPlus(FTimes(wx, wx), FTimes(wy, wy))
    IN  IF Contains01(t) THEN t
        ELSE IF FLt(start, end) THEN IntF(0)
        ELSE IntF(1)

\* edge.rs 177, 271: the squared distance from p as a polynomial in t
DistanceSq(self, p) ==
    LET zeros == [i \in 1..(Len(self.x_poly) - 1) |-> IntF(0)]
        x_point == Append(zeros, p[1])
        y_point == Append(zeros, p[2])
    IN  PolyAdd(pow2(PolySub(self.x_poly, x_point)).val,
                pow2(PolySub(self.y_poly, y_point)).val)

\* edge.rs 186-197, 280-291: the seed loop; tests counts its iterations
RECURSIVE SeedLoop(_, _, _, _, _, _)
SeedLoop(distance_sq, dd, test, best_dist_sq, best_t, tests) ==
    IF ~FLe(test, IntF(1)) THEN [t |-> best_t, tests |-> tests]
    ELSE LET found == newtons_root(dd, test, NEWTONS_ITERS)
             dist_sq == value(distance_sq, found)
             better == Contains01(found) /\ FLt(dist_sq, best_dist_sq)
         IN  SeedLoop(distance_sq, dd, FPlus(test, Quarters(1)),
                      IF better THEN dist_sq ELSE best_dist_sq,
                      IF better THEN found ELSE best_t,
                      tests + 1)

\* QuadCurve::nearest_t and CubicCurve::nearest_t, edge.rs 170-199, 264-293
CurveNearestT(self, p) ==
    LET distance_sq == DistanceSq(self, p)
        dd == derivative(distance_sq)
        start_dist_sq == value(distance_sq, IntF(0))
        end_dist_sq == value(distance_sq, IntF(1))
    IN  IF FLt(start_dist_sq, end_dist_sq)
        THEN SeedLoop(distance_sq, dd, IntF(0), start_dist_sq, IntF(0), 0)
        ELSE SeedLoop(distance_sq, dd, IntF(0), end_dist_sq, IntF(1), 0)

\* Edge::nearest_t; tests is the number of passes of the seed loop
nearest_t(self, p) ==
    IF self.kind = "Line" THEN [t |-> LineNearestT(self, p), tests |-> 0]
    ELSE CurveNearestT(self, p)

\* edge.rs 213-220, 307-314: fold(INFINITY, min) and fold(NEG_INFINITY, max)
RECURSIVE FoldMin(_, _, _)
FoldMin(possible, a, i) ==
    IF i > Len(possible) THEN a ELSE FoldMin(possible, FMin(a, possible[i]), i + 1)
RECURSIVE FoldMax(_, _, _)
FoldMax(possible, a, i) ==
    IF i > Len(possible) THEN a ELSE FoldMax(possible, FMax(a, possible[i]), i + 1)
EdgeBoundingBox(possible_x, possible_y) ==
    [left |-> FoldMin(possible_x, Inf(1), 1),
     right |-> FoldMax(possible_x, Inf(-1), 1),
     top |-> FoldMax(possible_y, Inf(-1), 1),
     bottom |-> FoldMin(possible_y, Inf(1), 1)]

\* edge.rs 208-211: the values of one axis of a QuadCurve at 0, at the
\* clamped root of the derivative and at 1
QuadPossible(poly) ==
    LET t == FClamp(root(derivative(poly)), IntF(0), IntF(1))
    IN  << value(poly, IntF(0)), value(poly, t), value(poly, IntF(1)) >>

\* edge.rs 302-305: the values of one axis of a CubicCurve at 0, at the
\* clamped roots of the derivative and at 1
CubicPossible(poly) ==
    LET ts == roots(derivative(poly))
    IN  << value(poly, FClamp(IntF(0), IntF(0), IntF(1))),
           value(poly, FClamp(ts[1], IntF(0), IntF(1))),
           value(poly, FClamp(ts[2], IntF(0), IntF(1))),
           value(poly, FClamp(IntF(1), IntF(0), IntF(1))) >>

\* Edge::bbox, edge.rs 128-135, 207-222, 301-316
bbox(self) ==
    CASE self.kind = "Line" ->
            [left |-> FMin(self.start[1], self.end[1]),
             right |-> FMax(self.start[1], self.end[1]),
             top |-> FMax(self.start[2], self.end[2]),
             bottom |-> FMin(self.start[2], self.end[2])]
      [] self.kind = "Quad" ->
            EdgeBoundingBox(QuadPossible(self.x_poly), QuadPossible(self.y_poly))
      [] self.kind = "Cubic" ->
            EdgeBoundingBox(CubicPossible(self.x_poly), CubicPossible(self.y_poly))

----------------------------------------------------------------------------
(* edge.rs: point, nearest_t and bbox as functions of the control points  *)

\* The control points of an edge: two for a Line, three for a QuadCurve,
\* four for a CubicCurve.
EdgesOver(points) == UNION { SeqsOfLen(points, n) : n \in 2..4 }

\* A coordinate far enough from zero that the coefficients of an edge of
\* len control points need rounding, and near enough that none overflows.
Far(len) == MaxFinite \div (IF len = 4 THEN 13 ELSE 5) - EdgeOne
FarPoints(len) ==
    { << IntF(0), IntF(0) >>, << Finite(1), IntF(1) >>,
      << Finite(-Far(len)), IntF(0) >>, << Finite(Far(len) + 1), Finite(-Far(len)) >> }
FarEdges == UNION { SeqsOfLen(FarPoints(n), n) : n \in 2..4 }

\* Points of the unit square, where outlines scaled by the face height lie.
UnitPoints ==
    { << IntF(0), IntF(0) >>, << IntF(1), IntF(0) >>, << IntF(1), IntF(1) >>,
      << IntF(0), IntF(1) >>, << Quarters(2), Quarters(1) >> }
QueryPoints ==
    { << IntF(0), IntF(0) >>, << Quarters(2), IntF(1) >>, << IntF(1), Quarters(1) >>,
      << Quarters(-2), Quarters(2) >>, << Quarters(3), Quarters(3) >> }

\* Points of the unit square whose sums and products need rounding.
OffGridPoints ==
    { << Finite(0), Finite(0) >>, << Finite(11), Finite(19) >>,
      << Finite(19), Finite(11) >>, << Finite(32), Finite(5) >>,
      << Finite(5), Finite(11) >>, << Finite(19), Finite(0) >> }

EdgeCalls ==
    { [fn |-> "point", pts |-> pts, t |-> t] :
        pts \in FarEdges, t \in { IntF(0), Quarters(2), IntF(1) } }
    \cup
    { [fn |-> "nearest_t", pts |-> pts, point |-> q] :
        pts \in EdgesOver(UnitPoints), q \in QueryPoints }
    \cup
    { [fn |-> "nearest_t", pts |-> pts, point |-> q] :
        pts \in SeqsOfLen(OffGridPoints, 2), q \in OffGridPoints }
    \cup
    { [fn |-> "bbox", pts |-> pts] : pts \in EdgesOver(UnitPoints) }

InitEdge ==
    /\ call \in EdgeCalls
    /\ pc = "call"
    /\ NoOutline
    /\ InitIdle

PointOf == Returns("point", point(EdgeOf(call.pts), call.t))
NearestT == Returns("nearest_t", nearest_t(EdgeOf(call.pts), call.point))
Bbox == Returns("bbox", bbox(EdgeOf(call.pts)))

NextEdge == PointOf \/ NearestT \/ Bbox
SpecEdge == InitEdge /\ [][NextEdge]_vars

\* The first and the last control point of the edge of the call.
StartOf(c) == c.pts[1]
EndOf(c) == c.pts[Len(c.pts)]

\* The largest magnitude among the coordinates of pts, in units of the
\* last binary digit kept.
RECURSIVE MaxOf(_)
MaxOf(S) ==
    IF S = {} THEN 0
    ELSE LET x == CHOOSE x \in S : TRUE
             m == MaxOf(S \ {x})
         IN  IF x > m THEN x ELSE m
Reach(pts) == MaxOf({ Abs(pts[i][k].val) : i \in 1..Len(pts), k \in 1..2 })

\* Every sum and product that builds and evaluates the coefficients of pts
\* fits the significand: no operation rounds.
NoRounding(pts) == 12 * Reach(pts) < 2 ^ MantBits

\* a and b differ by at most the rounding errors that building and
\* evaluating the coefficients of pts can accumulate.
WithinRounding(a, b, pts) ==
    /\ IsFinite(a)
    /\ Abs(a.val - b.val) * (2 ^ MantBits) <= 16 * 12 * Reach(pts)

PointReturned(t) == pc = "returned" /\ call.fn = "point" /\ call.t = t

DistSq(a, p) ==
    LET dx == FMinus(a[1], p[1])
        dy == FMinus(a[2], p[2])
    IN  FPlus(FTimes(dx, dx), FTimes(dy, dy))

\* The squared distance, scaled by EdgeOne^4 and computed over the integers,
\* between p and the point at t of the line from pts[1] to pts[2].
LineDistSqExact(pts, t, p) ==
    LET x == pts[1][1].val * (EdgeOne - t.val) + pts[2][1].val * t.val - p[1].val * EdgeOne
        y == pts[1][2].val * (EdgeOne - t.val) + pts[2][2].val * t.val - p[2].val * EdgeOne
    IN  x * x + y * y

\* t is a number from 0 to 1.
InUnitInterval(t) == IsFinite(t) /\ 0 <= t.val /\ t.val <= EdgeOne

NearestReturned == pc = "returned" /\ call.fn = "nearest_t"

\* The results of Newton's method from the five seeds of the call.
SeedRoots ==
    { newtons_root(derivative(DistanceSq(EdgeOf(call.pts), call.point)),
                   Quarters(k), NEWTONS_ITERS) : k \in 0..4 }

SampleParams == { Finite(k * (EdgeOne \div 8)) : k \in 0..8 }

\* The point q lies in the box b.
InBox(b, q) ==
    /\ FLe(b.left, q[1]) /\ FLe(q[1], b.right)
    /\ FLe(b.bottom, q[2]) /\ FLe(q[2], b.top)

\* C30: the box bbox() returns contains point(t) for every t in [0,1], for
\* every Line, QuadCurve and CubicCurve, degenerate ones included.
C30_BboxContainsCurve ==
    (pc = "returned" /\ call.fn = "bbox") =>
        \A t \in SampleParams : InBox(ret, point(EdgeOf(call.pts), t))

====
